---- MODULE Spec2Model ----
(***************************************************************************)
(* State-machine model of the TalkToExcel command pipeline: the Excel      *)
(* Service (workbook, file on disk, backups, structure record), the CRUD   *)
(* deletion/update handlers and their registry wrappers, the Safety        *)
(* Manager with its four analyzers, and the Command Processor.             *)
(*                                                                         *)
(* Scope of the workbook model: one worksheet ("Sheet1") with one column.  *)
(* Row 1 is the header cell A1, rows 2.. are the data cells A2..An.  A     *)
(* cell is a tagged value so that a number and a text with the same        *)
(* printed form stay different values (7 != "7") while str() maps both to  *)
(* the same string.  Cells that openpyxl would create on mere access       *)
(* outside the used extent are not modelled: ranges are clipped to the     *)
(* used extent.                                                            *)
(***************************************************************************)
EXTENDS Integers, Sequences, FiniteSets, TLC

VARIABLES
    workbook,    \* ExcelService.workbook: [header, rows, charts] in memory
    file,        \* the workbook file on disk, same shape
    structure,   \* ExcelService.structure (ExcelStructure of the one sheet)
    backups,     \* backup directory: timestamp -> copied file content
    clock,       \* wall clock in whole seconds (backup file names)
    lastOp,      \* the operation most recently called, with its arguments
    result,      \* what that operation returned
    events,      \* backup attempts and saves made by that operation, in order
    pending,     \* CommandProcessor._pending_confirmations: id -> record
    nextId,      \* number of confirmation ids minted so far (uuid4 is fresh)
    lastSafety,  \* the SafetyResult the last call computed, NoSafety if none
    execLog,     \* bound-function invocations made by the Command Processor
    calls,       \* calls made to the Command Processor
    backupLog,   \* create_backup calls that returned a path: their time stamps
    breaker,     \* RecoveryManager.ollama_circuit_breaker: its fields
    breakerLog,  \* outcomes of the calls the breaker passed on, latest last
    recovery,    \* the recovery chain of one failure: its handler, context and counts
    llm,         \* OllamaService: retry_attempts, and how the server will answer
    session,     \* CLIInterface.session, and whether the program has exited
    system,      \* ExcelLLMSystem.is_initialized, ExcelService.file_path and the other files
    hot,         \* the catalog file, TemplateLoader, TemplateRegistry and the watcher
    audit,       \* AuditLogger: counter, lock, buffer, and the threads calling it
    registry,    \* TemplateRegistry: its two dictionaries while a reload rebuilds them
    checker      \* PeriodicReloadChecker: _is_running, _timer, and its timers

vars == <<workbook, file, structure, backups, clock, lastOp, result, events,
          pending, nextId, lastSafety, execLog, calls, backupLog,
          breaker, breakerLog, recovery, llm, session, system, hot, audit, registry, checker>>

excelVars == <<workbook, file, structure, backups>>
cpVars == <<pending, nextId, lastSafety, execLog, calls>>
bakVars == <<backupLog>>
brkVars == <<breaker, breakerLog>>
recVars == <<recovery>>
auxVars == <<bakVars, brkVars, recVars, llm, session, system, hot, audit, registry, checker>>
\* what the actions of one service leave alone besides the workbook state
notBak == <<cpVars, brkVars, recVars, llm, session, system, hot, audit, registry, checker>>
notBrk == <<cpVars, bakVars, recVars, llm, session, system, hot, audit, registry, checker>>
notRec == <<cpVars, bakVars, llm, session, system, hot, audit, registry, checker>>
notLLM == <<bakVars, brkVars, recVars, session, system, hot, audit, registry, checker>>
notCLI == <<bakVars, brkVars, recVars, llm, system, hot, audit, registry, checker>>
notMain == <<bakVars, brkVars, recVars, llm, session, hot, audit, registry, checker>>
notHot == <<cpVars, bakVars, brkVars, recVars, llm, session, system, audit, registry, checker>>

----------------------------------------------------------------------------
(* Bounds *)

MaxDataRows == 3      \* data rows of the exhaustively enumerated sheets
MaxClock == 1         \* the clock advances at most this far
MaxCommands == 2      \* commands submitted to the Command Processor
MaxBackupCalls == 11  \* create_backup calls in a row, on a clock of as many seconds
MaxBreakerClock == 62 \* seconds over which the circuit breaker is called
MaxAttempts == 3      \* largest max_attempts of a recovery context
MaxChains == 2        \* recovery chains started
MaxRetryAttempts == 2 \* largest retry_attempts of the Ollama service
TicksPerSecond == 2   \* resolution of the watcher's clock
MaxHotTicks == 6      \* the watcher's clock advances at most this far
MaxWatchers == 2      \* start_watching is called at most this often
MaxAuditThreads == 2  \* threads calling log_audit_event
MaxAuditCalls == 3    \* log_audit_event calls made in all
MaxTurns == 4         \* calls of a dialogue of commands and confirmation replies
MaxReloads == 2       \* reloads of the Template Registry
MaxTimers == 4        \* Timers the periodic checker makes
MaxCheckerCalls == 3  \* calls of the periodic checker's start() and stop()

(* Program constants *)

DeleteLimit == 50     \* crud_handlers.py:1772  preview.affected_rows > 50
DefaultMaxRows == 10  \* crud_handlers.py:3050  wrapper default safety limit
max_backups == 10     \* excel_service.py:60
safety_max_rows == 50     \* safety_manager.py:35  SafetyManager(max_rows=50)
safety_max_columns == 20  \* safety_manager.py:35  SafetyManager(max_columns=20)
ollama_failure_threshold == 3   \* recovery_manager.py:155  ollama_circuit_breaker
ollama_recovery_timeout == 30   \* recovery_manager.py:155  ollama_circuit_breaker
backoff_cap == 30               \* recovery_manager.py:198  wait_time
default_retry_attempts == 3     \* ollama_service.py:50  retry_attempts

----------------------------------------------------------------------------
(* Optional values: Python None is the empty set, a present value x is {x} *)

NoneOpt == {}
Some(x) == {x}
IsNone(o) == o = {}
Val(o) == CHOOSE x \in o : TRUE

----------------------------------------------------------------------------
(* Cell values *)

None == [t |-> "none", v |-> ""]
Text(s) == [t |-> "text", v |-> s]
Num(s) == [t |-> "number", v |-> s]

DataVals == {None, Text("7"), Num("7")}

\* Python str(value)
Str(c) == IF c = None THEN "None" ELSE c.v

\* `str(cell_value) if cell_value is not None else ""`
CellStr(c) == IF c = None THEN "" ELSE Str(c)

\* Python truthiness of a cell value (`if header:`); "" and None are falsy
Truthy(c) == c # None /\ c.v # ""

RECURSIVE SeqsUpTo(_, _)
SeqsUpTo(S, n) ==
    IF n = 0 THEN {<<>>}
    ELSE LET shorter == SeqsUpTo(S, n - 1)
         IN shorter \cup {Append(s, x) : s \in {q \in shorter : Len(q) = n - 1}, x \in S}

Uniform(n, c) == [i \in 1..n |-> c]

Sheet(h, rs) == [header |-> h, rows |-> rs, charts |-> 0]

SmallSheets == {Sheet(Text("Name"), rs) : rs \in SeqsUpTo(DataVals, MaxDataRows)}

\* sheets at and just above the deletion ceiling
BigSheets == {Sheet(Text("Name"), Uniform(n, Text("7"))) : n \in {DeleteLimit, DeleteLimit + 1}}

SheetName == "Sheet1"

max_row(wb) == 1 + Len(wb.rows)

\* sheet.cell(row=r, column=1).value
CellAt(wb, r) == IF r = 1 THEN wb.header ELSE wb.rows[r - 1]

\* cell.value = v
SetCell(wb, r, v) ==
    IF r = 1 THEN [wb EXCEPT !.header = v]
    ELSE [wb EXCEPT !.rows[r - 1] = v]

\* openpyxl Worksheet.delete_rows(idx): rows below move up by one
SheetDeleteRow(wb, r) ==
    IF r < 2 \/ r > max_row(wb) THEN
        IF r = 1 /\ Len(wb.rows) > 0
        THEN [wb EXCEPT !.header = wb.rows[1], !.rows = Tail(wb.rows)]
        ELSE IF r = 1 THEN [wb EXCEPT !.header = None] ELSE wb
    ELSE [wb EXCEPT !.rows = SubSeq(wb.rows, 1, r - 2) \o SubSeq(wb.rows, r, Len(wb.rows))]

\* the rows of wb that are not numbered in gone, in order
RowsOutside(wb, gone) ==
    LET kept == SelectSeq([i \in 1..Len(wb.rows) |-> i + 1], LAMBDA r : r \notin gone)
    IN [i \in 1..Len(kept) |-> wb.rows[kept[i] - 1]]

\* the row numbers fall strictly and all name data rows of wb
BottomUp(wb, rs) ==
    /\ \A i \in 1..Len(rs) : rs[i] >= 2 /\ rs[i] <= max_row(wb)
    /\ \A i \in 1..(Len(rs) - 1) : rs[i] > rs[i + 1]

\* `for row_num in rows: sheet.delete_rows(row_num)`: the listed rows are
\* deleted one after the other, in the order given.  Deleting bottom-up
\* never moves a row that is still to be deleted, so then the rows left
\* are those not listed; any other order is followed step by step.
RECURSIVE DeleteRowsInOrder(_, _)
DeleteRowsInOrder(wb, rs) ==
    IF rs = <<>> THEN wb
    ELSE IF BottomUp(wb, rs)
    THEN [wb EXCEPT !.rows = RowsOutside(wb, {rs[i] : i \in 1..Len(rs)})]
    ELSE DeleteRowsInOrder(SheetDeleteRow(wb, Head(rs)), Tail(rs))

Reverse(s) == [i \in 1..Len(s) |-> s[Len(s) + 1 - i]]

\* sorted(rows, reverse=True): the element at position i moves behind
\* every larger element and every equal element that came before it
SortDesc(s) ==
    LET before(i) == Cardinality({j \in 1..Len(s) : s[j] > s[i] \/ (s[j] = s[i] /\ j < i)})
    IN [k \in 1..Len(s) |-> s[CHOOSE i \in 1..Len(s) : before(i) = k - 1]]

----------------------------------------------------------------------------
(* Excel Service: structure analysis *)

Min(a, b) == IF a < b THEN a ELSE b

TypeName(c) == IF c.t = "number" THEN "number" ELSE "text"

\* ExcelService._detect_column_type
_detect_column_type(wb, start_row, end_row) ==
    LET last == Min(end_row, max_row(wb))
        types_found == {TypeName(CellAt(wb, r)) :
                          r \in {q \in start_row..last : CellAt(wb, q) # None}}
    IN IF types_found = {} THEN "empty"
       ELSE IF Cardinality(types_found) = 1 THEN CHOOSE t \in types_found : TRUE
       ELSE "mixed"

\* ExcelService._analyze_sheet, ExcelService._analyze_structure
_analyze_structure(wb) ==
    LET has_data == \E r \in 1..max_row(wb) : CellAt(wb, r) # None
        header == IF wb.header # None THEN Str(wb.header) ELSE "Column_1"
        sample_rows == Min(10, max_row(wb) - 1)
    IN IF ~has_data
       THEN [headers |-> <<>>, data_types |-> <<>>, row_count |-> 0, column_count |-> 0]
       ELSE [headers |-> <<header>>,
             data_types |-> (header :> _detect_column_type(wb, 2, sample_rows + 1)),
             row_count |-> max_row(wb),
             column_count |-> 1]

\* ExcelStructure.get_sheet_info
get_sheet_info(st) == st

----------------------------------------------------------------------------
(* Excel Service: backups and saving *)

\* ExcelService._cleanup_old_backups: keep the max_backups newest time stamps
_cleanup_old_backups(bk) ==
    LET stamps == DOMAIN bk
        newer(t) == Cardinality({u \in stamps : u > t})
        kept == {t \in stamps : newer(t) < max_backups}
    IN [t \in kept |-> bk[t]]

\* ExcelService.create_backup: copy the file to {stem}_backup_{timestamp}
create_backup(bk, f, now, backup_ok) ==
    IF backup_ok
    THEN _cleanup_old_backups([t \in (DOMAIN bk) \cup {now} |-> IF t = now THEN f ELSE bk[t]])
    ELSE bk

\* ExcelService.save_workbook: the optional backup, then workbook.save;
\* a failing save raises.  Returns the new backups, the new file and flags.
save_workbook(wb, f, bk, now, with_backup, backup_ok, save_ok) ==
    [backups |-> IF with_backup THEN create_backup(bk, f, now, backup_ok) ELSE bk,
     file |-> IF save_ok THEN wb ELSE f,
     raised |-> ~save_ok,
     events |-> (IF with_backup THEN <<"backup">> ELSE <<>>) \o
                (IF save_ok THEN <<"save">> ELSE <<"save_failed">>)]

----------------------------------------------------------------------------
(* Query handler helpers used by deletion *)

\* the row numbers start..max_row in ascending order
RowNumbersFrom(wb, start) == [i \in 1..(max_row(wb) + 1 - start) |-> i + start - 1]

\* DataQueryHandler._extract_sheet_data: records keyed by the structure's
\* headers, rows 2..max_row in order; a row is kept only if one of its
\* cells is not None
_extract_sheet_data(wb, headers) ==
    LET kept == SelectSeq(RowNumbersFrom(wb, 2),
                          LAMBDA row_num : headers # <<>> /\ CellAt(wb, row_num) # None)
    IN [i \in 1..Len(kept) |-> (headers[1] :> CellAt(wb, kept[i]))]

\* DataQueryHandler._evaluate_condition, for the operators modelled
_evaluate_condition(record_value, operator, condition_value) ==
    CASE operator = "=" -> record_value = condition_value
      [] operator = "!=" -> record_value # condition_value
      [] OTHER -> FALSE

\* one condition is [operator, value]; operator "plain" is a bare value
\* compared with `record_value != condition`
ConditionHolds(record_value, condition) ==
    IF condition.operator = "plain"
    THEN record_value = condition.value
    ELSE _evaluate_condition(record_value, condition.operator, condition.value)

\* the matching loop shared by _preview_by_conditions and _delete_by_conditions
RecordMatches(record, conditions) ==
    \A column \in DOMAIN conditions :
        column \in DOMAIN record /\ ConditionHolds(record[column], conditions[column])

----------------------------------------------------------------------------
(* DataDeletionHandler *)

DeletionData(sheet, conditions, target_rows, target_range, unique_identifier, conf) ==
    [target_sheet |-> sheet, conditions |-> conditions, target_rows |-> target_rows,
     target_range |-> target_range, unique_identifier |-> unique_identifier,
     confirmation_required |-> conf]

DeletionResult(success, message, affected_rows, deleted_data, requires_confirmation) ==
    [success |-> success, message |-> message, affected_rows |-> affected_rows,
     deleted_data |-> deleted_data, requires_confirmation |-> requires_confirmation]

Cond(operator, value) == [operator |-> operator, value |-> value]

\* the range strings of the model and how they read: a single cell, a
\* block of cells, whole columns, or no range at all.  "Sheet1" upper-cased
\* has the letters-then-digits form of a cell reference.
RangeShape(ref) ==
    CASE ref = "A1" -> [kind |-> "cell", rows |-> {1}, columns |-> 1]
      [] ref = "A2" -> [kind |-> "cell", rows |-> {2}, columns |-> 1]
      [] ref = "A1:A1" -> [kind |-> "cells", rows |-> {1}, columns |-> 1]
      [] ref = "A1:A2" -> [kind |-> "cells", rows |-> 1..2, columns |-> 1]
      [] ref = "A1:A3" -> [kind |-> "cells", rows |-> 1..3, columns |-> 1]
      [] ref = "A1:A4" -> [kind |-> "cells", rows |-> 1..4, columns |-> 1]
      [] ref = "A1:A60" -> [kind |-> "cells", rows |-> 1..60, columns |-> 1]
      [] ref = "A:Z" -> [kind |-> "columns", rows |-> {}, columns |-> 26]
      [] ref = "Sheet1" -> [kind |-> "cell", rows |-> {1}, columns |-> 1]
      [] OTHER -> [kind |-> "none", rows |-> {}, columns |-> 0]

\* range references offered to range deletion and cell updates; "bad" is
\* not a range
RangeRefs == {"A1", "A2", "A1:A2", "bad"}

\* openpyxl can resolve the reference
RangeIsValid(ref) == RangeShape(ref).kind # "none"

\* rows of column A that a range reference covers
RangeRowsOf(ref) == RangeShape(ref).rows

\* `':' in ref`
HasColon(ref) == RangeShape(ref).kind \in {"cells", "columns"}

\* the cells of sheet[ref] inside the used extent, top to bottom
RangeCellRows(wb, ref) ==
    LET inside == {r \in RangeRowsOf(ref) : r <= max_row(wb)}
    IN SelectSeq([i \in 1..max_row(wb) |-> i], LAMBDA r : r \in inside)

\* DataDeletionHandler._validate_deletion_data
_validate_deletion_data(req) ==
    LET targets_specified ==
            (IF IsNone(req.target_rows) THEN 0 ELSE 1) +
            (IF IsNone(req.target_range) THEN 0 ELSE 1) +
            (IF IsNone(req.conditions) THEN 0 ELSE 1) +
            (IF IsNone(req.unique_identifier) THEN 0 ELSE 1)
    IN /\ req.target_sheet # ""
       /\ req.target_sheet = SheetName
       /\ targets_specified = 1
       /\ IsNone(req.target_rows) \/
          \A i \in 1..Len(Val(req.target_rows)) : Val(req.target_rows)[i] >= 2

\* DataDeletionHandler._preview_specific_rows
_preview_specific_rows(wb, st, req) ==
    LET row_numbers == Val(req.target_rows)
        headers == get_sheet_info(st).headers
        valid_rows == SelectSeq(row_numbers, LAMBDA r : ~(r < 2 \/ r > max_row(wb)))
        record(r) == IF headers = <<>> THEN <<>> ELSE (headers[1] :> CellAt(wb, r))
    IN DeletionResult(TRUE, "preview", Len(valid_rows),
                      [i \in 1..Len(valid_rows) |-> record(valid_rows[i])], FALSE)

\* DataDeletionHandler._preview_specific_range
_preview_specific_range(wb, req) ==
    LET ref == Val(req.target_range)
        filled == SelectSeq(RangeCellRows(wb, ref), LAMBDA r : CellAt(wb, r) # None)
    IN IF ~RangeIsValid(ref)
       THEN DeletionResult(FALSE, "invalid_range", 0, <<>>, FALSE)
       ELSE DeletionResult(TRUE, "preview", 0,
                           [i \in 1..Len(filled) |->
                               [cell |-> filled[i], value |-> CellAt(wb, filled[i])]], FALSE)

\* DataDeletionHandler._preview_by_conditions
_preview_by_conditions(wb, st, conditions) ==
    LET headers == get_sheet_info(st).headers
        raw_data == _extract_sheet_data(wb, headers)
        matching_records == SelectSeq(raw_data, LAMBDA record : RecordMatches(record, conditions))
    IN DeletionResult(TRUE, "preview", Len(matching_records), matching_records, FALSE)

\* DataDeletionHandler._preview_by_unique_identifier
_preview_by_unique_identifier(wb, st, req) ==
    _preview_by_conditions(wb, st, Val(req.unique_identifier))

\* DataDeletionHandler._preview_deletion
_preview_deletion(wb, st, req) ==
    IF ~IsNone(req.target_rows) THEN _preview_specific_rows(wb, st, req)
    ELSE IF ~IsNone(req.target_range) THEN _preview_specific_range(wb, req)
    ELSE IF ~IsNone(req.conditions) THEN _preview_by_conditions(wb, st, Val(req.conditions))
    ELSE IF ~IsNone(req.unique_identifier) THEN _preview_by_unique_identifier(wb, st, req)
    ELSE DeletionResult(FALSE, "no_target", 0, <<>>, FALSE)

\* what a strategy leaves behind: the workbook, the saved file, the
\* structure record, the events and the result it returns
Outcome(wb, f, st, bk, ev, res) ==
    [workbook |-> wb, file |-> f, structure |-> st, backups |-> bk, events |-> ev, result |-> res]

\* the tail shared by the three deletion strategies: save without a new
\* backup, then recompute the structure; a failed save returns failure
\* with the cells already changed and the structure not recomputed
SaveAndReanalyze(wb2, f, st, bk, ev, save_ok, okResult) ==
    LET sv == save_workbook(wb2, f, bk, 0, FALSE, FALSE, save_ok)
    IN IF sv.raised
       THEN Outcome(wb2, f, st, bk, ev \o sv.events,
                    DeletionResult(FALSE, "save_failed", 0, <<>>, FALSE))
       ELSE Outcome(wb2, sv.file, _analyze_structure(wb2), bk, ev \o sv.events, okResult)

\* the loop of _delete_specific_rows: the rows in the order given, skipping
\* row numbers outside 2..max_row of the sheet as it is at that moment
\* (the list is split in halves only to keep the evaluation shallow)
RECURSIVE DeleteGuarded(_, _, _)
DeleteGuarded(wb, deleted_count, row_numbers) ==
    IF row_numbers = <<>> THEN [wb |-> wb, deleted_count |-> deleted_count]
    ELSE IF Len(row_numbers) = 1
    THEN IF row_numbers[1] < 2 \/ row_numbers[1] > max_row(wb)
         THEN [wb |-> wb, deleted_count |-> deleted_count]
         ELSE [wb |-> SheetDeleteRow(wb, row_numbers[1]), deleted_count |-> deleted_count + 1]
    ELSE LET half == Len(row_numbers) \div 2
             first == DeleteGuarded(wb, deleted_count, SubSeq(row_numbers, 1, half))
         IN DeleteGuarded(first.wb, first.deleted_count,
                          SubSeq(row_numbers, half + 1, Len(row_numbers)))

\* DataDeletionHandler._delete_specific_rows
_delete_specific_rows(wb, f, st, bk, ev, req, save_ok) ==
    LET row_numbers == SortDesc(Val(req.target_rows))
        preview_result == _preview_specific_rows(wb, st, req)
        done == DeleteGuarded(wb, 0, row_numbers)
    IN SaveAndReanalyze(done.wb, f, st, bk, ev, save_ok,
           DeletionResult(TRUE, "deleted", done.deleted_count, preview_result.deleted_data, FALSE))

\* DataDeletionHandler._delete_specific_range: clears the cells in place
RECURSIVE ClearCells(_, _)
ClearCells(wb, cell_rows) ==
    IF cell_rows = <<>> THEN wb
    ELSE ClearCells(SetCell(wb, Head(cell_rows), None), Tail(cell_rows))

_delete_specific_range(wb, f, st, bk, ev, req, save_ok) ==
    LET preview_result == _preview_specific_range(wb, req)
        cleared == ClearCells(wb, RangeCellRows(wb, Val(req.target_range)))
    IN IF ~preview_result.success THEN Outcome(wb, f, st, bk, ev, preview_result)
       ELSE SaveAndReanalyze(cleared, f, st, bk, ev, save_ok,
                DeletionResult(TRUE, "cleared", 0, preview_result.deleted_data, FALSE))

\* `for row_idx, record in enumerate(raw_data, 2)`: the row number given
\* to a record is its position in raw_data plus one
MatchingRowNumbers(raw_data, conditions) ==
    SelectSeq([i \in 1..Len(raw_data) |-> i + 1],
              LAMBDA row_idx : RecordMatches(raw_data[row_idx - 1], conditions))

\* DataDeletionHandler._delete_by_conditions
_delete_by_conditions(wb, f, st, bk, ev, conditions, save_ok) ==
    LET preview_result == _preview_by_conditions(wb, st, conditions)
        headers == get_sheet_info(st).headers
        raw_data == _extract_sheet_data(wb, headers)
        matching_row_numbers == MatchingRowNumbers(raw_data, conditions)
        wb2 == DeleteRowsInOrder(wb, SortDesc(matching_row_numbers))
    IN IF preview_result.affected_rows = 0
       THEN Outcome(wb, f, st, bk, ev, DeletionResult(TRUE, "no_match", 0, <<>>, FALSE))
       ELSE SaveAndReanalyze(wb2, f, st, bk, ev, save_ok,
                DeletionResult(TRUE, "deleted", Len(matching_row_numbers),
                               preview_result.deleted_data, FALSE))

\* DataDeletionHandler._delete_by_unique_identifier
_delete_by_unique_identifier(wb, f, st, bk, ev, req, save_ok) ==
    _delete_by_conditions(wb, f, st, bk, ev, Val(req.unique_identifier), save_ok)

\* the strategy dispatch at the end of delete_data (crud_handlers.py:1796-1808)
DeletionStrategy(wb, f, st, bk, ev, req, save_ok) ==
    IF ~IsNone(req.target_rows) THEN _delete_specific_rows(wb, f, st, bk, ev, req, save_ok)
    ELSE IF ~IsNone(req.target_range) THEN _delete_specific_range(wb, f, st, bk, ev, req, save_ok)
    ELSE IF ~IsNone(req.conditions)
    THEN _delete_by_conditions(wb, f, st, bk, ev, Val(req.conditions), save_ok)
    ELSE _delete_by_unique_identifier(wb, f, st, bk, ev, req, save_ok)

\* delete_data without its confirmation gate: backup and deletion at once
delete_data_unconfirmed(wb, f, st, bk, now, req, confirmed, backup_ok, save_ok) ==
    LET preview_result == _preview_deletion(wb, st, req)
    IN IF ~_validate_deletion_data(req)
       THEN Outcome(wb, f, st, bk, <<>>, DeletionResult(FALSE, "validation", 0, <<>>, FALSE))
       ELSE IF ~preview_result.success
       THEN Outcome(wb, f, st, bk, <<>>, preview_result)
       ELSE IF preview_result.affected_rows > DeleteLimit
       THEN Outcome(wb, f, st, bk, <<>>, DeletionResult(FALSE, "too_broad", 0, <<>>, FALSE))
       ELSE DeletionStrategy(wb, f, st, create_backup(bk, f, now, backup_ok), <<"backup">>,
                             req, save_ok)

\* DataDeletionHandler.delete_data
delete_data(wb, f, st, bk, now, req, confirmed, backup_ok, save_ok) ==
    LET preview_result == _preview_deletion(wb, st, req)
    IN IF ~_validate_deletion_data(req)
       THEN Outcome(wb, f, st, bk, <<>>, DeletionResult(FALSE, "validation", 0, <<>>, FALSE))
       ELSE IF ~preview_result.success
       THEN Outcome(wb, f, st, bk, <<>>, preview_result)
       ELSE IF preview_result.affected_rows > DeleteLimit
       THEN Outcome(wb, f, st, bk, <<>>, DeletionResult(FALSE, "too_broad", 0, <<>>, FALSE))
       ELSE IF req.confirmation_required /\ ~confirmed
       THEN Outcome(wb, f, st, bk, <<>>,
                DeletionResult(FALSE, "confirmation_required", preview_result.affected_rows,
                               preview_result.deleted_data, TRUE))
       ELSE DeletionStrategy(wb, f, st, create_backup(bk, f, now, backup_ok), <<"backup">>,
                             req, save_ok)

----------------------------------------------------------------------------
(* Module-level wrappers bound by the Template Registry *)

WrapperResult(success, message, affected_rows) ==
    [success |-> success, message |-> message, affected_rows |-> affected_rows]

\* `for col ...: header = cell(1, col).value; if header: headers.append(str(header))`
SheetHeaders(wb) == IF Truthy(wb.header) THEN <<Str(wb.header)>> ELSE <<>>

\* str(condition_value): a bare value prints as itself; an operator
\* dictionary prints as a dictionary, which no cell text equals
ConditionStr(condition) ==
    IF condition.operator = "plain" THEN Str(condition.value) ELSE "{dict}"

\* the row test of delete_rows (crud_handlers.py:3069-3095)
ShouldDelete(wb, headers, conditions, row_num) ==
    IF IsNone(conditions) \/ Val(conditions) = <<>>
    THEN CellAt(wb, row_num) = None
    ELSE \A column \in DOMAIN Val(conditions) :
            /\ \E i \in 1..Len(headers) : headers[i] = column
            /\ CellStr(CellAt(wb, row_num)) = ConditionStr(Val(conditions)[column])

\* the scan loop of delete_rows: rows 2..max_row in order, stopping once
\* max_rows rows are collected
ScanRows(wb, headers, conditions, max_rows) ==
    LET matching == SelectSeq(RowNumbersFrom(wb, 2),
                              LAMBDA row_num : ShouldDelete(wb, headers, conditions, row_num))
    IN SubSeq(matching, 1, Min(max_rows, Len(matching)))

\* delete_rows(excel_service, sheet_name, conditions, max_rows)
delete_rows(wb, f, st, bk, now, sheet_name, conditions, max_rows_arg, backup_ok, save_ok) ==
    LET max_rows == IF IsNone(max_rows_arg) THEN DefaultMaxRows ELSE Val(max_rows_arg)
        rows_to_delete == ScanRows(wb, SheetHeaders(wb), conditions, max_rows)
        deleted_count == Len(rows_to_delete)
        wb2 == DeleteRowsInOrder(wb, Reverse(rows_to_delete))
        sv == save_workbook(wb2, f, bk, now, TRUE, backup_ok, save_ok)
    IN IF sheet_name # SheetName
       THEN Outcome(wb, f, st, bk, <<>>, WrapperResult(FALSE, "sheet_not_found", 0))
       ELSE IF deleted_count = 0
       THEN Outcome(wb, f, st, bk, <<>>, WrapperResult(TRUE, "none_found", 0))
       ELSE IF sv.raised
       THEN Outcome(wb2, f, st, sv.backups, sv.events, WrapperResult(FALSE, "error", 0))
       ELSE Outcome(wb2, sv.file, st, sv.backups, sv.events,
                    WrapperResult(TRUE, "deleted", deleted_count))

\* the row test of _update_rows_by_conditions (crud_handlers.py:2964-2974)
RowMatchesText(wb, conditions, row_num) ==
    \A column \in DOMAIN conditions :
        CellStr(CellAt(wb, row_num)) = ConditionStr(conditions[column])

\* the update loop of _update_rows_by_conditions: every matching data row
\* gets the new values; the row test reads the row before it is written
UpdateRows(wb, conditions, values) ==
    LET matches(row_num) == RowMatchesText(wb, conditions, row_num)
        written(c) == IF DOMAIN values = {} THEN c
                      ELSE values[CHOOSE column \in DOMAIN values : TRUE]
    IN [wb |-> [wb EXCEPT !.rows = [i \in 1..Len(wb.rows) |->
                                      IF matches(i + 1) THEN written(wb.rows[i]) ELSE wb.rows[i]]],
        updated_rows |-> Cardinality({r \in 2..max_row(wb) : matches(r)})]

\* _update_rows_by_conditions(excel_service, sheet, sheet_name, conditions, values)
_update_rows_by_conditions(wb, f, st, bk, now, conditions, values, backup_ok, save_ok) ==
    LET headers == SheetHeaders(wb)
        known(column) == \E i \in 1..Len(headers) : headers[i] = column
        done == UpdateRows(wb, conditions, values)
        sv == save_workbook(done.wb, f, bk, now, TRUE, backup_ok, save_ok)
    IN IF headers = <<>>
       THEN Outcome(wb, f, st, bk, <<>>, WrapperResult(FALSE, "no_headers", 0))
       ELSE IF \E column \in DOMAIN conditions : ~known(column)
       THEN Outcome(wb, f, st, bk, <<>>, WrapperResult(FALSE, "condition_column", 0))
       ELSE IF \E column \in DOMAIN values : ~known(column)
       THEN Outcome(wb, f, st, bk, <<>>, WrapperResult(FALSE, "update_column", 0))
       ELSE IF done.updated_rows = 0
       THEN Outcome(wb, f, st, bk, <<>>, WrapperResult(FALSE, "no_rows", 0))
       ELSE IF sv.raised
       THEN Outcome(done.wb, f, st, sv.backups, sv.events, WrapperResult(FALSE, "error", 0))
       ELSE Outcome(done.wb, sv.file, st, sv.backups, sv.events,
                    WrapperResult(TRUE, "updated", done.updated_rows))

\* sheet[ref].value = v for a single-cell reference; a cell just below the
\* used rows extends the sheet
WriteCell(wb, ref, v) ==
    LET r == CHOOSE x \in RangeRowsOf(ref) : TRUE
    IN IF r = max_row(wb) + 1 THEN [wb EXCEPT !.rows = Append(wb.rows, v)]
       ELSE SetCell(wb, r, v)

\* update_cells(excel_service, sheet_name, range, values, conditions):
\* conditions with a value dictionary go to _update_rows_by_conditions; a
\* single-cell range with a value is written in place and saved
update_cells(wb, f, st, bk, now, sheet_name, range, values, conditions, backup_ok, save_ok) ==
    LET wb2 == WriteCell(wb, Val(range), Val(values).scalar)
        sv == save_workbook(wb2, f, bk, now, TRUE, backup_ok, save_ok)
    IN IF sheet_name # SheetName
       THEN Outcome(wb, f, st, bk, <<>>, WrapperResult(FALSE, "sheet_not_found", 0))
       ELSE IF ~IsNone(conditions) /\ Val(conditions) # <<>> /\ ~IsNone(values) /\ Val(values).is_dict
       THEN _update_rows_by_conditions(wb, f, st, bk, now, Val(conditions), Val(values).dict,
                                       backup_ok, save_ok)
       ELSE IF ~IsNone(range) /\ ~IsNone(values) /\ ~HasColon(Val(range))
       THEN IF ~RangeIsValid(Val(range))
            THEN Outcome(wb, f, st, bk, <<>>, WrapperResult(FALSE, "error", 0))
            ELSE IF sv.raised
            THEN Outcome(wb2, f, st, sv.backups, sv.events, WrapperResult(FALSE, "error", 0))
            ELSE Outcome(wb2, sv.file, st, sv.backups, sv.events, WrapperResult(TRUE, "updated", 1))
       ELSE Outcome(wb, f, st, bk, <<>>, WrapperResult(FALSE, "bad_request", 0))

\* chart types of visualization_operations.ChartType
ChartTypes == {"bar", "line", "pie", "scatter", "area", "column"}

\* data_range arguments offered to create_chart: a cell range, the sheet's
\* name (auto-detect mode) and a string that is neither
DataRanges == {"A1:A2", "Sheet1", "bad"}

\* create_chart(workbook, sheet_name, data_range, chart_type, ..., excel_service):
\* a data_range without ':' must name a sheet with more than one row and
\* more than one column (this sheet has one column); a missing chart type
\* ("") is auto-detected; the chart is added to the in-memory sheet; the
\* workbook is saved only when an excel_service is passed, with
\* create_backup=False, and a failing save is swallowed
create_chart(wb, f, st, bk, sheet_name, data_range, chart_type, has_excel_service, save_ok) ==
    LET max_column == 1
        wb2 == [wb EXCEPT !.charts = @ + 1]
        sv == save_workbook(wb2, f, bk, 0, FALSE, FALSE, save_ok)
    IN IF ~HasColon(data_range) /\ data_range # SheetName
       THEN Outcome(wb, f, st, bk, <<>>, WrapperResult(FALSE, "invalid_range", 0))
       ELSE IF ~HasColon(data_range) /\ ~(max_row(wb) > 1 /\ max_column > 1)
       THEN Outcome(wb, f, st, bk, <<>>, WrapperResult(FALSE, "no_data", 0))
       ELSE IF sheet_name # SheetName
       THEN Outcome(wb, f, st, bk, <<>>, WrapperResult(FALSE, "sheet_not_found", 0))
       ELSE IF chart_type # "" /\ chart_type \notin ChartTypes
       THEN Outcome(wb, f, st, bk, <<>>, WrapperResult(FALSE, "unsupported_chart_type", 0))
       ELSE IF ~has_excel_service
       THEN Outcome(wb2, f, st, bk, <<>>, WrapperResult(TRUE, "chart_created", 0))
       ELSE Outcome(wb2, sv.file, st, bk, sv.events, WrapperResult(TRUE, "chart_created", 0))

----------------------------------------------------------------------------
(* DataUpdateHandler.update_cell and DataInsertionHandler.insert_row *)

\* str.isdigit() after dropping '.' and '-', for the texts of the model
LooksNumeric(text) == text = "7"

\* DataUpdateHandler._validate_and_convert_cell_value
_validate_and_convert_cell_value(value) ==
    IF value = None \/ value.v = "" THEN None
    ELSE IF value.t = "text" /\ LooksNumeric(value.v) THEN Num(value.v)
    ELSE value

\* DataUpdateHandler.update_cell: backup, write, save, re-analyse
update_cell(wb, f, st, bk, now, sheet_name, cell_reference, new_value, backup_ok, save_ok) ==
    LET bk2 == create_backup(bk, f, now, backup_ok)
        wb2 == WriteCell(wb, cell_reference, _validate_and_convert_cell_value(new_value))
        sv == save_workbook(wb2, f, bk2, now, FALSE, FALSE, save_ok)
    IN IF sheet_name # SheetName
       THEN Outcome(wb, f, st, bk, <<>>, WrapperResult(FALSE, "sheet_not_found", 0))
       ELSE IF ~RangeIsValid(cell_reference) \/ HasColon(cell_reference)
       THEN Outcome(wb, f, st, bk2, <<"backup">>, WrapperResult(FALSE, "invalid_cell", 0))
       ELSE IF sv.raised
       THEN Outcome(wb2, f, st, bk2, <<"backup">> \o sv.events, WrapperResult(FALSE, "error", 0))
       ELSE Outcome(wb2, sv.file, _analyze_structure(wb2), bk2, <<"backup">> \o sv.events,
                    WrapperResult(TRUE, "updated", 1))

InsertionData(values, target_sheet, target_row) ==
    [values |-> values, target_sheet |-> target_sheet, target_row |-> target_row]

\* DataInsertionHandler._validate_row_insertion
_validate_row_insertion(data) ==
    /\ data.values # <<>>
    /\ data.target_sheet # ""
    /\ data.target_sheet = SheetName
    /\ IsNone(data.target_row) \/ Val(data.target_row) >= 1
    /\ Len(data.values) <= 100

\* DataInsertionHandler._validate_and_convert_value: the value is made to
\* fit the column type the structure record gives for the column
_validate_and_convert_value(value, st, column_index) ==
    LET headers == get_sheet_info(st).headers
        expected_type == IF column_index <= Len(headers)
                         THEN get_sheet_info(st).data_types[headers[column_index]]
                         ELSE "text"
    IN IF value = None \/ value.v = "" THEN None
       ELSE IF expected_type = "number" /\ value.t = "text" /\ LooksNumeric(value.v)
       THEN Num(value.v)
       ELSE IF expected_type = "number" /\ value.t = "number" THEN value
       ELSE Text(Str(value))

\* openpyxl Worksheet.insert_rows(idx): rows from idx on move down by one
SheetInsertRow(wb, r) ==
    IF r = 1 THEN [wb EXCEPT !.header = None, !.rows = <<wb.header>> \o wb.rows]
    ELSE [wb EXCEPT !.rows = SubSeq(wb.rows, 1, r - 2) \o <<None>> \o SubSeq(wb.rows, r - 1, Len(wb.rows))]

\* DataInsertionHandler.insert_row: backup, shift, write the values that
\* fit the existing columns, save, re-analyse
insert_row(wb, f, st, bk, now, data, backup_ok, save_ok) ==
    LET bk2 == create_backup(bk, f, now, backup_ok)
        target_row == IF IsNone(data.target_row) THEN max_row(wb) + 1 ELSE Val(data.target_row)
        shifted == IF ~IsNone(data.target_row) /\ target_row <= max_row(wb)
                   THEN SheetInsertRow(wb, target_row) ELSE wb
        converted == _validate_and_convert_value(data.values[1], st, 1)
        wb2 == IF target_row = max_row(shifted) + 1
               THEN [shifted EXCEPT !.rows = Append(shifted.rows, converted)]
               ELSE SetCell(shifted, target_row, converted)
        sv == save_workbook(wb2, f, bk2, now, FALSE, FALSE, save_ok)
    IN IF ~_validate_row_insertion(data)
       THEN Outcome(wb, f, st, bk, <<>>, WrapperResult(FALSE, "validation", 0))
       ELSE IF sv.raised
       THEN Outcome(wb2, f, st, bk2, <<"backup">> \o sv.events, WrapperResult(FALSE, "error", 0))
       ELSE Outcome(wb2, sv.file, _analyze_structure(wb2), bk2, <<"backup">> \o sv.events,
                    WrapperResult(TRUE, "inserted", 1))

----------------------------------------------------------------------------
(* Inputs *)

ByName(c) == ("Name" :> c)

ConditionChoices ==
    { <<>>,
      ByName(Cond("plain", Text("7"))),
      ByName(Cond("plain", Num("7"))),
      ByName(Cond("!=", Text("7"))),
      ("Other" :> Cond("plain", Text("7"))) }

TargetRowChoices == { <<2>>, <<3, 2>>, <<1, 2>> }

DeletionTargets ==
    {DeletionData(SheetName, Some(c), NoneOpt, NoneOpt, NoneOpt, TRUE) : c \in ConditionChoices}
    \cup {DeletionData(SheetName, NoneOpt, Some(rs), NoneOpt, NoneOpt, TRUE) : rs \in TargetRowChoices}
    \cup {DeletionData(SheetName, NoneOpt, NoneOpt, Some(ref), NoneOpt, TRUE) : ref \in RangeRefs}
    \cup {DeletionData(SheetName, NoneOpt, NoneOpt, NoneOpt, Some(ByName(Cond("plain", Text("7")))), TRUE)}
    \cup {DeletionData(SheetName, NoneOpt, NoneOpt, NoneOpt, NoneOpt, TRUE),
          DeletionData(SheetName, Some(<<>>), Some(<<2>>), NoneOpt, NoneOpt, TRUE),
          DeletionData("", Some(<<>>), NoneOpt, NoneOpt, NoneOpt, TRUE),
          DeletionData("Nope", Some(<<>>), NoneOpt, NoneOpt, NoneOpt, TRUE)}

DeletionRequests ==
    {[d EXCEPT !.confirmation_required = c] : d \in DeletionTargets, c \in BOOLEAN}

NoOp == [name |-> "none"]
NoResult == [success |-> TRUE, message |-> "none"]
NoSafety == [evaluated |-> FALSE]

\* a workbook as load_workbook leaves it: file and memory agree and the
\* structure has just been analysed
Loaded(wb) ==
    /\ workbook = wb
    /\ file = wb
    /\ structure = _analyze_structure(wb)
    /\ backups = <<>>
    /\ clock = 0
    /\ lastOp = NoOp
    /\ result = NoResult
    /\ events = <<>>

CommandProcessorIdle ==
    /\ pending = <<>>
    /\ nextId = 0
    /\ lastSafety = NoSafety
    /\ execLog = <<>>
    /\ calls = 0

----------------------------------------------------------------------------
(* CircuitBreaker (processing/recovery_manager.py).  Times are seconds.    *)

\* CircuitBreaker.__init__
CircuitBreaker(failure_threshold, recovery_timeout) ==
    [failure_threshold |-> failure_threshold, recovery_timeout |-> recovery_timeout,
     failure_count |-> 0, last_failure_time |-> NoneOpt, state |-> "closed"]

\* a reset that is attempted whenever the circuit is open
_should_attempt_reset_at_once(b, now) == TRUE

\* CircuitBreaker._should_attempt_reset
_should_attempt_reset(b, now) ==
    IF IsNone(b.last_failure_time) THEN TRUE
    ELSE now - Val(b.last_failure_time) >= b.recovery_timeout

\* a success that closes the circuit and keeps the failure count
_on_success_keeping_count(b) == [b EXCEPT !.state = "closed"]

\* CircuitBreaker._on_success
_on_success(b) == [b EXCEPT !.failure_count = 0, !.state = "closed"]

\* CircuitBreaker._on_failure
_on_failure(b, now) ==
    LET counted == [b EXCEPT !.failure_count = @ + 1, !.last_failure_time = Some(now)]
    IN IF counted.failure_count >= counted.failure_threshold
       THEN [counted EXCEPT !.state = "open"]
       ELSE counted

\* CircuitBreaker.call(func): the breaker it leaves, whether func was
\* invoked, whether that was a half-open trial, and whether call raised;
\* func_ok tells whether func returns or raises
call(b, now, func_ok) ==
    LET attempt == b.state = "open" /\ _should_attempt_reset(b, now)
        entered == IF attempt THEN [b EXCEPT !.state = "half-open"] ELSE b
    IN IF b.state = "open" /\ ~attempt
       THEN [breaker |-> b, invoked |-> FALSE, trial |-> FALSE, raised |-> TRUE]
       ELSE IF func_ok
       THEN [breaker |-> _on_success(entered), invoked |-> TRUE, trial |-> attempt,
             raised |-> FALSE]
       ELSE [breaker |-> _on_failure(entered, now), invoked |-> TRUE, trial |-> attempt,
             raised |-> TRUE]

\* RecoveryManager.reset_circuit_breakers, for one breaker
reset_circuit_breakers(b) ==
    [b EXCEPT !.failure_count = 0, !.state = "closed", !.last_failure_time = NoneOpt]

----------------------------------------------------------------------------
(* RecoveryManager handlers (processing/recovery_manager.py) *)

\* RecoveryContext: the fields the handlers read
RecoveryContext(attempt_count, max_attempts, backup_path) ==
    [attempt_count |-> attempt_count, max_attempts |-> max_attempts,
     backup_path |-> backup_path]

\* RecoveryResult: new_context is None unless a further call is expected
RecoveryResult(success, action_taken, new_context) ==
    [success |-> success, action_taken |-> action_taken, new_context |-> new_context]

\* RecoveryManager.create_recovery_context
create_recovery_context(max_attempts, backup_path) ==
    RecoveryContext(0, max_attempts, backup_path)

\* the context handed to the next call: one more attempt counted
NextAttempt(context) ==
    RecoveryContext(context.attempt_count + 1, context.max_attempts, context.backup_path)

\* a ceiling test that lets one more attempt through
handle_ollama_connection_failure_past_ceiling(context, b, now, func_ok) ==
    IF context.attempt_count > context.max_attempts
    THEN [result |-> RecoveryResult(FALSE, "abort_operation", NoneOpt),
          breaker |-> b, now |-> now, called |-> FALSE, invoked |-> FALSE]
    ELSE \* the source's steps after the test
         LET woke == now + Min(2 ^ context.attempt_count, backoff_cap)
             done == call(b, woke, func_ok)
         IN [result |-> IF done.raised
                        THEN RecoveryResult(FALSE, "retry_operation", Some(NextAttempt(context)))
                        ELSE RecoveryResult(TRUE, "retry_operation", NoneOpt),
             breaker |-> done.breaker, now |-> woke, called |-> TRUE,
             invoked |-> done.invoked]

\* RecoveryManager.handle_ollama_connection_failure: the result, the breaker
\* it leaves, the time after the back-off sleep, whether the breaker was
\* called and whether initialize_connection was invoked.  func_ok tells
\* whether initialize_connection returns True or raises.
handle_ollama_connection_failure(context, b, now, func_ok) ==
    IF context.attempt_count >= context.max_attempts
    THEN [result |-> RecoveryResult(FALSE, "abort_operation", NoneOpt),
          breaker |-> b, now |-> now, called |-> FALSE, invoked |-> FALSE]
    ELSE LET wait_time == Min(2 ^ context.attempt_count, backoff_cap)
             woke == now + wait_time
             done == call(b, woke, func_ok)
         IN [result |-> IF done.raised
                        THEN RecoveryResult(FALSE, "retry_operation", Some(NextAttempt(context)))
                        ELSE RecoveryResult(TRUE, "retry_operation", NoneOpt),
             breaker |-> done.breaker, now |-> woke, called |-> TRUE,
             invoked |-> done.invoked]

\* ExcelService.restore_from_backup: copy the backup over the file and load
\* it again; a missing backup or a failing copy gives False
restore_from_backup(wb, f, bk, backup_path, copy_ok) ==
    IF backup_path \in DOMAIN bk /\ copy_ok
    THEN [success |-> TRUE, file |-> bk[backup_path], workbook |-> bk[backup_path]]
    ELSE [success |-> FALSE, file |-> f, workbook |-> wb]

\* RecoveryManager.handle_operation_failure: the result and the workbook
\* state it leaves
handle_operation_failure(context, wb, f, bk, copy_ok) ==
    LET has_backup == ~IsNone(context.backup_path) /\ Val(context.backup_path) \in DOMAIN bk
        restored == IF has_backup
                    THEN restore_from_backup(wb, f, bk, Val(context.backup_path), copy_ok)
                    ELSE [success |-> FALSE, file |-> f, workbook |-> wb]
    IN [result |-> IF restored.success
                   THEN RecoveryResult(TRUE, "restore_backup", NoneOpt)
                   ELSE IF context.attempt_count < context.max_attempts
                   THEN RecoveryResult(FALSE, "retry_operation", Some(NextAttempt(context)))
                   ELSE RecoveryResult(FALSE, "abort_operation", NoneOpt),
        tried_restore |-> has_backup,
        file |-> restored.file, workbook |-> restored.workbook]

\* no failure has been escalated
NoRecovery ==
    [handler |-> "none", context |-> NoneOpt, max_attempts |-> 0, retries |-> 0,
     attempts |-> 0, chains |-> 0, last |-> "none"]

\* ExcelService.__init__: no backup made yet
BackupsIdle == backupLog = [made |-> 0, stamps |-> {}]

\* RecoveryManager.__init__: the LLM circuit breaker, no recovery under way
RecoveryIdle ==
    /\ breaker = CircuitBreaker(ollama_failure_threshold, ollama_recovery_timeout)
    /\ breakerLog = <<>>
    /\ recovery = NoRecovery

\* OllamaService.__init__ with the default configuration
OllamaService(retry_attempts, script) ==
    [retry_attempts |-> retry_attempts, script |-> script]

LLMIdle == llm = OllamaService(default_retry_attempts, <<>>)

\* CLISession as CLIInterface.__init__ builds it
CLISession ==
    [current_file |-> NoneOpt, state |-> "ready", pending_confirmation_id |-> NoneOpt,
     clarification_context |-> NoneOpt, exited |-> FALSE]

CLIIdle == session = CLISession

\* ExcelLLMSystem after construction, with the workbook of one file loaded
\* in its Excel Service and another file on disk
ExcelLLMSystem(is_initialized, file_path, shelf) ==
    [is_initialized |-> is_initialized, file_path |-> file_path, shelf |-> shelf]

MainIdle == system = ExcelLLMSystem(TRUE, "a.xlsx", <<>>)

\* the catalog file, and the loader, registry and watcher built from it:
\* the safety level of the one operation the file describes
\* the threads that run reloads: the observer thread of the file watcher and
\* the thread of the read loop
Threads == {"watcher", "main"}

\* OperationConfigHandler._reload_delay, in seconds and in ticks of the clock
_reload_delay == 1
DelayTicks == _reload_delay * TicksPerSecond

\* TemplateLoader, TemplateRegistry and HotReloadManager as constructed over
\* a catalog whose one operation has the given safety level: the loader has
\* loaded it, the registry is built from it, nothing is being watched.
\* time.time() is far beyond one delay from the handler's initial
\* _last_reload of 0.
HotReload(level) ==
    [catalog |-> level, loaded |-> level, metadata |-> Some(level),
     watching |-> FALSE, watcher |-> 0, last_reload |-> 0,
     pc |-> [th \in Threads |-> "idle"], triggered |-> TRUE,
     now |-> DelayTicks, reloads |-> <<>>]

HotIdle == hot = HotReload("safe")

\* the threads that call the AuditLogger
AuditThreads == 1..MaxAuditThreads

max_events_in_memory == 1000

\* AuditLogger as __init__ leaves it: _event_counter, _lock (its holder),
\* audit_events (the event ids, in buffer order) and the audit file; of
\* each calling thread the statement it is at, the value it loaded and
\* its event_id; the ids in the order they were minted, and the calls made
AuditLogger ==
    [_event_counter |-> 0, _lock |-> NoneOpt, audit_events |-> <<>>, file |-> <<>>,
     pc |-> [th \in AuditThreads |-> "idle"],
     loaded |-> [th \in AuditThreads |-> 0],
     event_id |-> [th \in AuditThreads |-> 0],
     minted |-> <<>>, calls |-> 0]

AuditIdle == audit = AuditLogger

\* versions of the operation catalog, as registry keys in file order; the
\* query is in every version
QueryKey == "data_operations.query_data"

FirstCatalog == <<"data_operations.query_data", "data_operations.delete_rows">>

CatalogVersions ==
    { FirstCatalog,
      <<"data_operations.update_cells", "data_operations.query_data">> }

Range(seq) == {seq[i] : i \in DOMAIN seq}

\* TemplateRegistry as __init__ leaves it: the catalog file, the
\* operations the TemplateLoader holds, _function_registry and
\* _operation_metadata (their keys); of the thread that reloads, the
\* statement it is at, the keys it has still to register, and the keys
\* that were registered when its reload began
TemplateRegistry ==
    [catalog |-> FirstCatalog, operations |-> FirstCatalog,
     _function_registry |-> Range(FirstCatalog),
     _operation_metadata |-> Range(FirstCatalog),
     pc |-> "idle", todo |-> <<>>, reloads |-> 0,
     before |-> Range(FirstCatalog)]

RegistryIdle == registry = TemplateRegistry

\* PeriodicReloadChecker as __init__ leaves it: _is_running, _timer (the
\* number of the Timer it refers to), every Timer made so far with the
\* statement its thread is at, the statement the calling thread is at, the
\* call that returned last, the calls made, and how often stop() has
\* cleared _is_running
PeriodicReloadChecker ==
    [_is_running |-> FALSE, _timer |-> NoneOpt, timers |-> <<>>,
     pc |-> "idle", last |-> "none", calls |-> 0, stops |-> 0]

CheckerIdle == checker = PeriodicReloadChecker

\* the services outside the workbook and the Command Processor, untouched
ServicesIdle ==
    /\ BackupsIdle
    /\ RecoveryIdle
    /\ LLMIdle
    /\ CLIIdle
    /\ MainIdle
    /\ HotIdle
    /\ AuditIdle
    /\ RegistryIdle
    /\ CheckerIdle

Apply(o) ==
    /\ workbook' = o.workbook
    /\ file' = o.file
    /\ structure' = o.structure
    /\ backups' = o.backups
    /\ events' = o.events
    /\ result' = o.result

----------------------------------------------------------------------------
(* Parameters of a structured command: a dictionary from parameter name   *)
(* to value.  "conditions" holds a column -> condition dictionary,         *)
(* "max_rows" an integer, "values" an update value, the others strings.    *)

Has(parameters, param) == param \in DOMAIN parameters

\* str.lower() on the strings of the model
Lower(s) ==
    CASE s = "PIE" -> "pie"
      [] s = "Name" -> "name"
      [] s = "Other" -> "other"
      [] s = "Sheet1" -> "sheet1"
      [] s = "Y" -> "y"
      [] s = "Sure," -> "sure,"
      [] OTHER -> s

\* `not conditions or conditions == ['*'] or 'all' in str(conditions).lower()`
\* for a conditions dictionary: it is empty or one of its values reads "all"
Unlimited(conditions) ==
    \/ conditions = <<>>
    \/ \E column \in DOMAIN conditions : Str(conditions[column].value) = "all"

Max(a, b) == IF a > b THEN a ELSE b

----------------------------------------------------------------------------
(* Safety subsystem: ParameterValidator *)

RequiredParameters(operation) ==
    CASE operation = "insert_row" -> {"sheet_name", "data"}
      [] operation = "insert_column" -> {"sheet_name", "column_name"}
      [] operation = "update_cells" -> {"sheet_name", "range"}
      [] operation = "delete_rows" -> {"sheet_name", "conditions"}
      [] operation = "filter_data" -> {"sheet_name", "conditions"}
      [] operation = "create_chart" -> {"sheet_name", "data_range", "chart_type"}
      [] operation = "aggregate_data" -> {"sheet_name", "columns", "operation"}
      [] OTHER -> {}

_valid_chart_types ==
    {"bar", "line", "pie", "scatter", "area", "column", "histogram", "box", "bubble", "radar"}

\* the parameters the validator reads as Python strings
StringParameters == {"sheet_name", "range", "data_range", "chart_type", "title",
                     "category_field", "value_field"}

\* `dangerous in value.upper()` for one of '=', INDIRECT, HYPERLINK, EXEC,
\* SHELL, CALL, SYSTEM, IMPORT, EVAL: of the strings of the model only the
\* formula text holds one
HoldsDangerousString(s) == s = "=1+1"

\* ParameterValidator._is_valid_excel_range: letters-then-digits, or two
\* such cells, two column names or two row numbers around a colon
_is_valid_excel_range(range_str) ==
    RangeShape(range_str).kind # "none" \/ range_str = "Sheet1"

_check_required_parameters(operation, parameters) ==
    {"missing:" \o param : param \in {p \in RequiredParameters(operation) : ~Has(parameters, p)}}

\* ParameterValidator._validate_parameter_values: the errors, and the
\* parameters with chart_type lower-cased
_validate_parameter_values(operation, sanitized) ==
    LET chart_type == Lower(sanitized["chart_type"])
        errors ==
            (IF Has(sanitized, "max_rows") /\ sanitized["max_rows"] < 1
             THEN {"max_rows must be at least 1"} ELSE {})
            \cup (IF Has(sanitized, "max_rows") /\ sanitized["max_rows"] > 50
                  THEN {"max_rows cannot exceed 50"} ELSE {})
            \cup (IF Has(sanitized, "sheet_name") /\ sanitized["sheet_name"] = ""
                  THEN {"sheet_name must be a non-empty string"} ELSE {})
            \cup (IF Has(sanitized, "range") /\ ~_is_valid_excel_range(sanitized["range"])
                  THEN {"Invalid Excel range format"} ELSE {})
            \cup (IF Has(sanitized, "chart_type") /\ chart_type \notin _valid_chart_types
                  THEN {"Invalid chart type"} ELSE {})
    IN [errors |-> errors,
        sanitized |-> IF Has(sanitized, "chart_type")
                      THEN [sanitized EXCEPT !["chart_type"] = chart_type]
                      ELSE sanitized]

\* ParameterValidator._check_security_issues
_check_security_issues(sanitized) ==
    LET strings == {sanitized[p] : p \in DOMAIN sanitized \cap StringParameters}
                   \cup (IF Has(sanitized, "values") /\ ~sanitized["values"].is_dict
                            /\ sanitized["values"].scalar.t = "text"
                         THEN {sanitized["values"].scalar.v} ELSE {})
    IN IF \E s \in strings : HoldsDangerousString(s)
       THEN {"potentially dangerous content"} ELSE {}

\* ParameterValidator._validate_delete_rows
_validate_delete_rows(sanitized) ==
    [errors |-> IF Has(sanitized, "conditions") /\ sanitized["conditions"] = <<>>
                THEN {"Delete operations must have specific conditions"} ELSE {},
     sanitized |-> IF Has(sanitized, "max_rows") THEN sanitized
                   ELSE sanitized @@ ("max_rows" :> DefaultMaxRows)]

\* ParameterValidator._validate_create_chart
_validate_create_chart(sanitized) ==
    [errors |-> IF Has(sanitized, "data_range") /\ ~_is_valid_excel_range(sanitized["data_range"])
                THEN {"Invalid data range for chart"} ELSE {},
     sanitized |-> sanitized]

\* ParameterValidator._validate_operation_specific
_validate_operation_specific(operation, sanitized) ==
    CASE operation = "delete_rows" -> _validate_delete_rows(sanitized)
      [] operation = "create_chart" -> _validate_create_chart(sanitized)
      [] OTHER -> [errors |-> {}, sanitized |-> sanitized]

\* the ValidationResult assembled from the errors of the steps
ValidationResult(required_errors, values, security_errors, specific) ==
    [valid |-> required_errors \cup values.errors \cup security_errors \cup specific.errors = {},
     errors |-> required_errors \cup values.errors \cup security_errors \cup specific.errors,
     sanitized_parameters |-> specific.sanitized]

\* ParameterValidator.validate_parameters: each step runs once, on the
\* parameters the step before it left.  The parameters of the model
\* already have their declared Python types, so the type step converts
\* nothing and reports nothing.
validate_parameters(operation, parameters) ==
    Val({Val({ValidationResult(_check_required_parameters(operation, parameters), values,
                              _check_security_issues(values.sanitized), specific) :
                specific \in {_validate_operation_specific(operation, values.sanitized)}}) :
            values \in {_validate_parameter_values(operation, parameters)}})

----------------------------------------------------------------------------
(* Safety subsystem: CommandBlocker.  A command text is the sequence of    *)
(* its lower-cased words.                                                  *)

_blocked_operations == {"format_all", "delete_all", "clear_all", "replace_all"}

MassVerbs == {"format", "delete", "clear", "remove", "replace"}
MassWords == {"all", "everything", "entire", "whole"}
FileWords == {"spreadsheet", "workbook", "file", "sheet"}

\* a pattern test that only knows the dangerous range patterns
_check_dangerous_patterns_ranges_only(command_text) ==
    \E i \in 1..Len(command_text) :
        command_text[i] \in {"a:z", "1:1048576", "a1:xfd1048576"}

\* CommandBlocker._check_dangerous_patterns: the regular expressions of
\* _dangerous_patterns, each anchored on word boundaries
_check_dangerous_patterns(command_text) ==
    \/ \E i \in 1..(Len(command_text) - 1) :
          \/ command_text[i] \in MassVerbs /\ command_text[i + 1] \in MassWords
          \/ command_text[i] \in MassWords /\ command_text[i + 1] \in MassVerbs
          \/ command_text[i] \in {"entire", "whole", "complete"} /\ command_text[i + 1] \in FileWords
    \/ \E i \in 1..(Len(command_text) - 2) :
          command_text[i] = "remove" /\ command_text[i + 1] = "all" /\ command_text[i + 2] = "data"
    \/ \E i \in 1..Len(command_text) :
          command_text[i] \in {"a:z", "1:1048576", "a1:xfd1048576"}

\* CommandBlocker._check_scope_violations
_check_scope_violations(parameters) ==
    \/ Has(parameters, "max_rows") /\ parameters["max_rows"] > 50
    \/ Has(parameters, "max_columns") /\ parameters["max_columns"] > 20
    \/ /\ ~Has(parameters, "conditions") \/ Unlimited(parameters["conditions"])
       /\ Has(parameters, "operation_type")
       /\ parameters["operation_type"] \in {"delete", "update", "clear"}

\* CommandBlocker._check_dangerous_parameters: the upper-cased range holds
\* 'A:Z', '1:1048576' or 'A1:XFD1048576' (the lower-case entries 'entire'
\* and 'all' of the list cannot occur in an upper-cased string); the other
\* tests read operation_type, target, formula and expression
_check_dangerous_parameters(parameters) ==
    \/ Has(parameters, "range") /\ parameters["range"] = "A:Z"
    \/ /\ Has(parameters, "operation_type") /\ Has(parameters, "target")
       /\ parameters["operation_type"] \in {"delete", "clear", "format"}
       /\ parameters["target"] \in {"all", "everything", "entire"}
    \/ Has(parameters, "formula") /\ HoldsDangerousString(parameters["formula"])

BlockResult(blocked, reason) == [blocked |-> blocked, reason |-> reason]

\* CommandBlocker.check_command
check_command(operation, parameters, command_text) ==
    IF operation \in _blocked_operations THEN BlockResult(TRUE, "blocked operation")
    ELSE IF _check_dangerous_patterns(command_text) THEN BlockResult(TRUE, "pattern")
    ELSE IF _check_scope_violations(parameters) THEN BlockResult(TRUE, "scope")
    ELSE IF _check_dangerous_parameters(parameters) THEN BlockResult(TRUE, "parameters")
    ELSE BlockResult(FALSE, "")

----------------------------------------------------------------------------
(* Safety subsystem: RiskAssessor.  Scores are in tenths.                  *)

_operation_risks(operation) ==
    CASE operation \in {"query_data", "filter_data", "aggregate_data", "sort_data",
                        "create_chart", "modify_chart", "shift_axis", "transform_values",
                        "resize_chart", "insert_row"} -> "low"
      [] operation \in {"insert_column", "update_cells"} -> "medium"
      [] operation \in {"delete_rows", "delete_columns", "clear_data"} -> "high"
      [] operation \in {"format_all", "delete_all", "clear_all", "replace_all"} -> "dangerous"
      [] OTHER -> "medium"

_get_base_score(risk_level) ==
    CASE risk_level = "low" -> 2
      [] risk_level = "medium" -> 5
      [] risk_level = "high" -> 8
      [] OTHER -> 10

\* `keyword in word` for the one-word keywords: the word is the keyword or
\* has it inside ("small" holds "all")
WordHolds(word, keyword) == word = keyword \/ (keyword = "all" /\ word = "small")

\* RiskAssessor._contains_dangerous_keywords: a substring test; every
\* multi-word keyword starts with a one-word keyword
_contains_dangerous_keywords(text) ==
    \E i \in 1..Len(text) :
        \E keyword \in {"all", "everything", "entire", "whole", "complete"} :
            WordHolds(text[i], keyword)

\* RiskAssessor._is_large_range: of its patterns only ':' occurs in the
\* range strings of the model
_is_large_range(range_str) == range_str # "" /\ HasColon(range_str)

\* RiskAssessor._assess_parameters
_assess_parameters(parameters, operation) ==
    LET rows == IF ~Has(parameters, "max_rows") THEN 0
                ELSE IF parameters["max_rows"] > 50 THEN 10
                ELSE IF parameters["max_rows"] > 10 THEN 8 ELSE 0
        range == IF Has(parameters, "range") /\ _is_large_range(parameters["range"]) THEN 8 ELSE 0
        conditions ==
            IF ~Has(parameters, "conditions") THEN 0
            ELSE IF operation \in {"query_data", "filter_data", "aggregate_data", "sort_data"} THEN 0
            ELSE IF Unlimited(parameters["conditions"])
                    /\ operation \in {"update_cells", "delete_rows", "delete_columns", "clear_data"}
            THEN 10 ELSE 0
        format == IF \E param \in {"format", "style", "formatting"} : Has(parameters, param)
                  THEN 6 ELSE 0
    IN Max(Max(rows, range), Max(conditions, format))

_score_to_risk_level(score) ==
    IF score >= 10 THEN "dangerous"
    ELSE IF score >= 8 THEN "high"
    ELSE IF score >= 5 THEN "medium"
    ELSE "low"

\* an assessment that asks for confirmation by the final risk level alone
assess_operation_by_level(operation, parameters, command_text) ==
    LET base_score == IF _contains_dangerous_keywords(command_text) THEN 10
                      ELSE _get_base_score(_operation_risks(operation))
        risk_score == Max(base_score, _assess_parameters(parameters, operation))
        final_risk == _score_to_risk_level(risk_score)
    IN [level |-> final_risk,
        score |-> risk_score,
        blocked |-> final_risk = "dangerous",
        confirmation_required |-> final_risk \in {"high", "medium"}]

\* RiskAssessor.assess_operation
assess_operation(operation, parameters, command_text) ==
    LET base_score == IF _contains_dangerous_keywords(command_text) THEN 10
                      ELSE _get_base_score(_operation_risks(operation))
        risk_score == Max(base_score, _assess_parameters(parameters, operation))
        final_risk == _score_to_risk_level(risk_score)
    IN [level |-> final_risk,
        score |-> risk_score,
        blocked |-> final_risk = "dangerous",
        confirmation_required |->
            IF operation \in {"query_data", "filter_data", "aggregate_data", "sort_data"}
            THEN FALSE
            ELSE final_risk \in {"high", "medium"}]

----------------------------------------------------------------------------
(* Safety subsystem: ScopeAnalyzer *)

\* ScopeAnalyzer._parse_range: <<rows, columns>>
_parse_range(range_str) ==
    LET shape == RangeShape(range_str)
    IN IF shape.kind = "columns" THEN <<1000, shape.columns>>
       ELSE IF shape.kind = "cells" THEN <<Cardinality(shape.rows), shape.columns>>
       ELSE <<1, 1>>

\* ScopeAnalyzer._analyze_destructive_operation; sheet_info is an option
_analyze_destructive_operation(parameters, sheet_info) ==
    LET rows0 == IF Has(parameters, "max_rows") THEN parameters["max_rows"] ELSE 0
        columns0 == IF Has(parameters, "max_columns") THEN parameters["max_columns"] ELSE 0
        ranged == IF Has(parameters, "range") THEN _parse_range(parameters["range"]) ELSE <<0, 0>>
        rows1 == Max(rows0, ranged[1])
        columns1 == Max(columns0, ranged[2])
    IN IF Has(parameters, "conditions") /\ Unlimited(parameters["conditions"])
       THEN IF IsNone(sheet_info) THEN <<1000, 50>>
            ELSE <<Val(sheet_info).row_count, Val(sheet_info).column_count>>
       ELSE <<rows1, columns1>>

\* ScopeAnalyzer._analyze_generic_operation
_analyze_generic_operation(parameters) ==
    LET ranged == IF Has(parameters, "range") THEN _parse_range(parameters["range"]) ELSE <<1, 1>>
        rows == IF Has(parameters, "max_rows") THEN parameters["max_rows"] ELSE 1
        columns == IF Has(parameters, "max_columns") THEN parameters["max_columns"] ELSE 1
    IN <<Max(1, Max(ranged[1], rows)), Max(1, Max(ranged[2], columns))>>

\* ScopeAnalyzer._analyze_query_operation; "columns" is not among the
\* parameters of the model
_analyze_query_operation(parameters, sheet_info) ==
    IF IsNone(sheet_info) THEN <<0, 0>>
    ELSE <<Min(Val(sheet_info).row_count, 100), Min(Val(sheet_info).column_count, 10)>>

\* ScopeAnalyzer.analyze_scope with the limits the Safety Manager passes.
\* Insertion operations are not among the commands of the model.
analyze_scope(operation, parameters, sheet_info, limit_rows, limit_columns) ==
    LET estimate == IF operation \in {"delete_rows", "update_cells", "clear_data"}
                    THEN _analyze_destructive_operation(parameters, sheet_info)
                    ELSE IF operation \in {"filter_data", "sort_data", "aggregate_data"}
                    THEN _analyze_query_operation(parameters, sheet_info)
                    ELSE _analyze_generic_operation(parameters)
    IN [estimated_rows |-> estimate[1],
        estimated_columns |-> estimate[2],
        within_limits |-> ~(estimate[1] > limit_rows) /\ ~(estimate[2] > limit_columns)]

----------------------------------------------------------------------------
(* Safety subsystem: SafetyManager *)

SafetyResult(safe, blocked, confirmation_required, risk, scope, block, validation) ==
    [evaluated |-> TRUE, safe |-> safe, blocked |-> blocked,
     confirmation_required |-> confirmation_required,
     risk_assessment |-> risk, scope_analysis |-> scope,
     block_result |-> block, validation_result |-> validation]

\* the overall status with `blocked` computed from the blocker and the
\* risk assessor alone
OverallStatusUnscoped(validation_result, block_result, risk_assessment, scope_analysis) ==
    LET blocked == block_result.blocked \/ risk_assessment.blocked
    IN SafetyResult(validation_result.valid /\ ~block_result.blocked
                        /\ ~risk_assessment.blocked /\ scope_analysis.within_limits,
                    blocked,
                    risk_assessment.confirmation_required /\ ~blocked,
                    risk_assessment, scope_analysis, block_result, validation_result)

\* SafetyManager.evaluate_operation, "Determine overall safety status"
OverallStatus(validation_result, block_result, risk_assessment, scope_analysis) ==
    LET safe == /\ validation_result.valid
                /\ ~block_result.blocked
                /\ ~risk_assessment.blocked
                /\ scope_analysis.within_limits
        blocked == \/ block_result.blocked
                   \/ risk_assessment.blocked
                   \/ ~scope_analysis.within_limits
        confirmation_required == risk_assessment.confirmation_required /\ ~blocked
    IN SafetyResult(safe, blocked, confirmation_required,
                    risk_assessment, scope_analysis, block_result, validation_result)

\* the three analyzers run on the validator's sanitized parameters
Analyzed(operation, validation_result, command_text, sheet_info) ==
    Val({OverallStatus(validation_result, block_result, risk_assessment, scope_analysis) :
            block_result \in {check_command(operation, validation_result.sanitized_parameters,
                                           command_text)},
            risk_assessment \in {assess_operation(operation,
                                                  validation_result.sanitized_parameters,
                                                  command_text)},
            scope_analysis \in {analyze_scope(operation, validation_result.sanitized_parameters,
                                              sheet_info, safety_max_rows, safety_max_columns)}})

\* SafetyManager.evaluate_operation
evaluate_operation(operation, parameters, command_text, sheet_info) ==
    Val({Analyzed(operation, validation_result, command_text, sheet_info) :
            validation_result \in {validate_parameters(operation, parameters)}})

----------------------------------------------------------------------------
(* Template Registry and the structured commands the LLM Client returns *)

LLMResponse(intent, operation, parameters, risk_assessment) ==
    [intent |-> intent, operation |-> operation, parameters |-> parameters,
     risk_assessment |-> risk_assessment]

\* the operation catalogue: the module-level functions of crud_handlers
\* and visualization_operations, registered under their categories
Registered ==
    { <<"data_operations", "query_data">>,
      <<"data_operations", "delete_rows">>,
      <<"data_operations", "update_cells">>,
      <<"visualization_operations", "create_chart">> }

\* TemplateRegistry.is_operation_available
is_operation_available(category, operation) == <<category, operation>> \in Registered

\* registry keys ending in ".operation"
KeysEndingWith(operation) == {key \in Registered : key[2] = operation}

\* OllamaService.validate_response; its template map is loaded from the
\* same catalogue
validate_response(response) ==
    /\ response.intent # "" /\ response.operation # ""
    /\ KeysEndingWith(response.operation) # {} \/ response.intent = "clarification_needed"
    /\ response.risk_assessment \in {"low", "medium", "high"}

\* CommandProcessor._is_operation_available
_is_operation_available(intent, operation) ==
    is_operation_available(intent, operation) \/ KeysEndingWith(operation) # {}

\* query_data(excel_service, sheet_name, ...): reads the sheet
query_data(wb, f, st, bk, sheet_name) ==
    Outcome(wb, f, st, bk, <<>>,
            WrapperResult(sheet_name = SheetName,
                          IF sheet_name = SheetName THEN "queried" ELSE "sheet_not_found", 0))

----------------------------------------------------------------------------
(* Command Processor.  Its operators take the state of the processor and  *)
(* of the Excel Service as one record and return the state they leave,     *)
(* the ProcessingResult, the SafetyResult they computed (NoSafety if none) *)
(* and the backup and save events of the bound function.                   *)

\* the ProcessingResult dataclass: data, confirmation_prompt,
\* clarification_questions and the execution_details of operation_details
\* default to None; confirmation_id is the one in operation_details
ProcessingResult(status, message, confirmation_id) ==
    [status |-> status, message |-> message, confirmation_id |-> confirmation_id,
     data |-> NoneOpt, confirmation_prompt |-> NoneOpt,
     clarification_questions |-> NoneOpt, execution_details |-> NoneOpt]

\* result.get('data') of the dictionary the router returns: the wrappers
\* put a 'data' entry in the dictionary of a query and of a call that
\* changed rows
ResultData(execution_details) ==
    IF execution_details.success
       /\ (execution_details.message = "queried" \/ execution_details.affected_rows > 0)
    THEN Some("data") ELSE NoneOpt

\* the ProcessingResult of status success that _execute_operation builds
\* from the router's dictionary
ExecutionResult(execution_details) ==
    [ProcessingResult("success", execution_details.message, NoneOpt)
        EXCEPT !.data = ResultData(execution_details),
               !.execution_details = Some(execution_details)]

\* the ProcessingResult of _handle_clarification_needed and of
\* _check_chart_field_clarification
ClarificationResult(message) ==
    [ProcessingResult("clarification_needed", message, NoneOpt)
        EXCEPT !.clarification_questions = Some("questions")]

\* the ProcessingResult _validate_command_structure returns
StructureResult(status) ==
    IF status = "clarification_needed" THEN ClarificationResult("command structure")
    ELSE ProcessingResult(status, "command structure", NoneOpt)

Done(sys, res, safety, ev) == [sys |-> sys, result |-> res, safety |-> safety, events |-> ev]

Env(now, backup_ok, save_ok) == [now |-> now, backup_ok |-> backup_ok, save_ok |-> save_ok]

Optional(parameters, param) ==
    IF Has(parameters, param) THEN Some(parameters[param]) ELSE NoneOpt

\* the sheet_name the router passes on: the first sheet when none is
\* given, a sheet matching case-insensitively, else the name as given
RoutedSheetName(parameters) ==
    IF ~Has(parameters, "sheet_name") \/ parameters["sheet_name"] = "" THEN SheetName
    ELSE IF Lower(parameters["sheet_name"]) = Lower(SheetName) THEN SheetName
    ELSE parameters["sheet_name"]

\* TemplateRegistry.execute_operation: function(**kwargs) for the bound
\* function of the operation
execute_operation(sys, operation, parameters, env) ==
    LET sheet_name == RoutedSheetName(parameters)
    IN CASE operation = "query_data" ->
              query_data(sys.workbook, sys.file, sys.structure, sys.backups, sheet_name)
         [] operation = "delete_rows" ->
              delete_rows(sys.workbook, sys.file, sys.structure, sys.backups, env.now, sheet_name,
                          Optional(parameters, "conditions"), Optional(parameters, "max_rows"),
                          env.backup_ok, env.save_ok)
         [] operation = "update_cells" ->
              update_cells(sys.workbook, sys.file, sys.structure, sys.backups, env.now, sheet_name,
                           Optional(parameters, "range"), Optional(parameters, "values"),
                           Optional(parameters, "conditions"), env.backup_ok, env.save_ok)
         [] operation = "create_chart" ->
              create_chart(sys.workbook, sys.file, sys.structure, sys.backups, sheet_name,
                           parameters["data_range"],
                           IF Has(parameters, "chart_type") THEN parameters["chart_type"] ELSE "",
                           FALSE, env.save_ok)

\* the keyword arguments fit the bound function's signature: the CRUD
\* wrappers take **kwargs; create_chart needs the workbook, which only the
\* visualization intent passes, and a data_range
CallBinds(intent, operation, parameters) ==
    operation = "create_chart" =>
        intent = "visualization_operations" /\ Has(parameters, "data_range")

\* CommandProcessor._route_operation for an operation the registry holds:
\* whether the bound function ran, and what the router returns (an error
\* dictionary when the call raised)
_route_operation(sys, llm_response, env) ==
    IF CallBinds(llm_response.intent, llm_response.operation, llm_response.parameters)
    THEN [invoked |-> TRUE,
          outcome |-> execute_operation(sys, llm_response.operation, llm_response.parameters, env)]
    ELSE [invoked |-> FALSE,
          outcome |-> Outcome(sys.workbook, sys.file, sys.structure, sys.backups, <<>>,
                              WrapperResult(FALSE, "error", 0))]

Invocation(llm_response, safety_result) ==
    [llm_response |-> llm_response, safety_result |-> safety_result]

\* what _execute_operation returns once the router has returned: the
\* router's dictionary is never empty, so the status is success whatever
\* the dictionary says
Executed(sys, llm_response, safety_result, routed) ==
    Done([sys EXCEPT !.workbook = routed.outcome.workbook,
                     !.file = routed.outcome.file,
                     !.structure = routed.outcome.structure,
                     !.backups = routed.outcome.backups,
                     !.execLog = IF routed.invoked
                                 THEN Append(@, Invocation(llm_response, safety_result))
                                 ELSE @],
         ExecutionResult(routed.outcome.result),
         NoSafety, routed.outcome.events)

\* CommandProcessor._execute_operation: one call of the router
_execute_operation(sys, llm_response, safety_result, env) ==
    CHOOSE done \in {Executed(sys, llm_response, safety_result, routed) :
                        routed \in {_route_operation(sys, llm_response, env)}} : TRUE

\* CommandProcessor._check_chart_field_clarification: asks only when the
\* data_range names a sheet with data and more than two headers
_check_chart_field_clarification(sys, llm_response) ==
    /\ Has(llm_response.parameters, "sheet_name") /\ llm_response.parameters["sheet_name"] # ""
    /\ Has(llm_response.parameters, "data_range")
    /\ ~HasColon(llm_response.parameters["data_range"])
    /\ llm_response.parameters["data_range"] = SheetName
    /\ llm_response.parameters["sheet_name"] = SheetName
    /\ max_row(sys.workbook) > 1
    /\ Len(SheetHeaders(sys.workbook)) > 2

\* CommandProcessor._validate_command_structure: the status it returns
_validate_command_structure(sys, llm_response) ==
    IF ~validate_response(llm_response) THEN "failed"
    ELSE IF ~_is_operation_available(llm_response.intent, llm_response.operation) THEN "failed"
    ELSE IF /\ llm_response.intent = "visualization_operations"
            /\ llm_response.operation = "create_chart"
            /\ Has(llm_response.parameters, "chart_type")
            /\ llm_response.parameters["chart_type"] = "pie"
            /\ _check_chart_field_clarification(sys, llm_response)
    THEN "clarification_needed"
    ELSE "success"

\* ExcelStructure.get_sheet_info for a sheet name
SheetInfo(st, target_sheet) ==
    IF target_sheet = SheetName THEN get_sheet_info(st)
    ELSE [headers |-> <<>>, data_types |-> <<>>, row_count |-> 0, column_count |-> 0]

\* CommandProcessor._evaluate_safety
_evaluate_safety(sys, llm_response, user_command) ==
    LET parameters == llm_response.parameters
        sheet_info == IF Has(parameters, "sheet_name") /\ parameters["sheet_name"] # ""
                      THEN Some(SheetInfo(sys.structure, parameters["sheet_name"]))
                      ELSE NoneOpt
    IN evaluate_operation(llm_response.operation, parameters, user_command, sheet_info)

\* _handle_confirmation_required whose result also carries data
_handle_confirmation_required_with_data(sys, llm_response, safety_result, env) ==
    LET confirmation_id == sys.nextId + 1
        record == [llm_response |-> llm_response, safety_result |-> safety_result,
                   timestamp |-> env.now]
    IN Done([sys EXCEPT !.pending = @ @@ (confirmation_id :> record),
                        !.nextId = confirmation_id],
            [ProcessingResult("confirmation_required", "requires confirmation",
                              Some(confirmation_id))
                EXCEPT !.confirmation_prompt = Some("prompt"), !.data = Some("data")],
            safety_result, <<>>)

\* CommandProcessor._handle_confirmation_required
_handle_confirmation_required(sys, llm_response, safety_result, env) ==
    LET confirmation_id == sys.nextId + 1
        record == [llm_response |-> llm_response, safety_result |-> safety_result,
                   timestamp |-> env.now]
    IN Done([sys EXCEPT !.pending = @ @@ (confirmation_id :> record),
                        !.nextId = confirmation_id],
            [ProcessingResult("confirmation_required", "requires confirmation",
                              Some(confirmation_id))
                EXCEPT !.confirmation_prompt = Some("prompt")],
            safety_result, <<>>)

\* _handle_confirmation_response that proceeds unless the answer is a
\* refusal
_handle_confirmation_response_unless_refused(sys, confirmation_id, user_confirmed, env) ==
    LET record == sys.pending[confirmation_id]
        sys2 == [sys EXCEPT !.pending =
                    [id \in DOMAIN sys.pending \ {confirmation_id} |-> sys.pending[id]]]
    IN IF user_confirmed = Some(FALSE)
       THEN Done(sys2, ProcessingResult("failed", "Operation cancelled by user.", NoneOpt),
                 NoSafety, <<>>)
       ELSE _execute_operation(sys2, record.llm_response, record.safety_result, env)

\* _handle_confirmation_response that leaves the record pending when the
\* user confirms
_handle_confirmation_response_keeping_record(sys, confirmation_id, user_confirmed, env) ==
    LET record == sys.pending[confirmation_id]
        sys2 == [sys EXCEPT !.pending =
                    [id \in DOMAIN sys.pending \ {confirmation_id} |-> sys.pending[id]]]
    IN IF IsNone(user_confirmed) \/ ~Val(user_confirmed)
       THEN Done(sys2, ProcessingResult("failed", "Operation cancelled by user.", NoneOpt),
                 NoSafety, <<>>)
       ELSE _execute_operation(sys, record.llm_response, record.safety_result, env)

\* CommandProcessor._handle_confirmation_response
_handle_confirmation_response(sys, confirmation_id, user_confirmed, env) ==
    LET record == sys.pending[confirmation_id]
        sys2 == [sys EXCEPT !.pending =
                    [id \in DOMAIN sys.pending \ {confirmation_id} |-> sys.pending[id]]]
    IN IF IsNone(user_confirmed) \/ ~Val(user_confirmed)
       THEN Done(sys2, ProcessingResult("failed", "Operation cancelled by user.", NoneOpt),
                 NoSafety, <<>>)
       ELSE _execute_operation(sys2, record.llm_response, record.safety_result, env)

\* the outcome of an executed command carries the SafetyResult of the call
WithSafety(done, safety_result) == [done EXCEPT !.safety = safety_result]

\* CommandProcessor.process_command, steps 5 to 7: block, ask for
\* confirmation, or execute
Gate(sys, llm_response, safety_result, env) ==
    IF safety_result.blocked
    THEN Done(sys, ProcessingResult("blocked", "Operation blocked for safety", NoneOpt),
              safety_result, <<>>)
    ELSE IF safety_result.confirmation_required
    THEN _handle_confirmation_required(sys, llm_response, safety_result, env)
    ELSE WithSafety(_execute_operation(sys, llm_response, safety_result, env), safety_result)

\* CommandProcessor.process_command; `parsed` is what the LLM Client
\* returns for the command text (None when parsing fails)
process_command(sys, user_command, parsed, confirmation_id, user_confirmed, env) ==
    IF ~IsNone(confirmation_id) /\ Val(confirmation_id) \in DOMAIN sys.pending
    THEN _handle_confirmation_response(sys, Val(confirmation_id), user_confirmed, env)
    ELSE IF IsNone(parsed)
    THEN Done(sys, ProcessingResult("failed", "Failed to parse command.", NoneOpt), NoSafety, <<>>)
    ELSE IF Val(parsed).intent = "clarification_needed"
    THEN Done(sys, ClarificationResult("I need more information."), NoSafety, <<>>)
    ELSE IF _validate_command_structure(sys, Val(parsed)) # "success"
    THEN Done(sys, StructureResult(_validate_command_structure(sys, Val(parsed))),
              NoSafety, <<>>)
    ELSE Val({Gate(sys, Val(parsed), safety_result, env) :
                 safety_result \in {_evaluate_safety(sys, Val(parsed), user_command)}})

\* f"{column letter}1:{column letter}{sheet.max_row}" for the one column
DataRangeTo(last_row) ==
    CASE last_row = 1 -> "A1:A1"
      [] last_row = 2 -> "A1:A2"
      [] last_row = 3 -> "A1:A3"
      [] OTHER -> "A1:A4"

\* the command process_command_with_fields builds
FieldsCommand(sys, sheet_name, category_field, value_field) ==
    LLMResponse("visualization_operations", "create_chart",
                ("sheet_name" :> sheet_name)
                    @@ ("data_range" :> DataRangeTo(max_row(sys.workbook)))
                    @@ ("chart_type" :> "pie")
                    @@ ("title" :> "title")
                    @@ ("category_field" :> category_field)
                    @@ ("value_field" :> value_field),
                "low")

\* the headers dictionary of process_command_with_fields: its keys
FieldHeaders(sys) ==
    {Lower(SheetHeaders(sys.workbook)[i]) : i \in 1..Len(SheetHeaders(sys.workbook))}

\* process_command_with_fields that executes whatever the safety result
process_command_with_fields_ungated(sys, original_command, sheet_name, category_field, value_field, env) ==
    IF sheet_name # SheetName
    THEN Done(sys, ProcessingResult("failed", "Sheet not found", NoneOpt), NoSafety, <<>>)
    ELSE IF Lower(category_field) \notin FieldHeaders(sys)
            \/ Lower(value_field) \notin FieldHeaders(sys)
    THEN Done(sys, ProcessingResult("failed", "Could not find fields", NoneOpt), NoSafety, <<>>)
    ELSE Val({WithSafety(_execute_operation(
                             sys, FieldsCommand(sys, sheet_name, category_field, value_field),
                             safety_result, env),
                         safety_result) :
                 safety_result \in {_evaluate_safety(
                     sys, FieldsCommand(sys, sheet_name, category_field, value_field),
                     original_command)}})

\* CommandProcessor.process_command_with_fields
process_command_with_fields(sys, original_command, sheet_name, category_field, value_field, env) ==
    IF sheet_name # SheetName
    THEN Done(sys, ProcessingResult("failed", "Sheet not found", NoneOpt), NoSafety, <<>>)
    ELSE IF Lower(category_field) \notin FieldHeaders(sys)
            \/ Lower(value_field) \notin FieldHeaders(sys)
    THEN Done(sys, ProcessingResult("failed", "Could not find fields", NoneOpt), NoSafety, <<>>)
    ELSE Val({IF safety_result.blocked
              THEN Done(sys, ProcessingResult("blocked", "Operation blocked for safety", NoneOpt),
                        safety_result, <<>>)
              ELSE WithSafety(_execute_operation(
                                  sys, FieldsCommand(sys, sheet_name, category_field, value_field),
                                  safety_result, env),
                              safety_result) :
                 safety_result \in {_evaluate_safety(
                     sys, FieldsCommand(sys, sheet_name, category_field, value_field),
                     original_command)}})

----------------------------------------------------------------------------
(* Handler and wrapper calls as actions.  A session is one request made   *)
(* on a freshly loaded workbook; a deletion that came back asking for      *)
(* confirmation may be resubmitted, confirmed.                             *)

Fresh == lastOp = NoOp

\* the caller resubmits, confirmed, the request that asked for confirmation
Resubmission(req, confirmed) ==
    /\ lastOp # NoOp
    /\ lastOp.name = "delete_data"
    /\ result.requires_confirmation
    /\ req = lastOp.req
    /\ confirmed

Tick ==
    /\ clock < MaxClock
    /\ Fresh
    /\ clock' = clock + 1
    /\ UNCHANGED <<workbook, file, structure, backups, lastOp, result, events>>
    /\ UNCHANGED cpVars
    /\ UNCHANGED auxVars

DeleteDataCall ==
    \E req \in DeletionRequests, confirmed \in BOOLEAN, backup_ok \in BOOLEAN, save_ok \in BOOLEAN :
        /\ Fresh \/ Resubmission(req, confirmed)
        /\ Apply(delete_data(workbook, file, structure, backups, clock, req, confirmed,
                             backup_ok, save_ok))
        /\ lastOp' = [name |-> "delete_data", req |-> req, confirmed |-> confirmed]
        /\ UNCHANGED clock
        /\ UNCHANGED cpVars
        /\ UNCHANGED auxVars

MaxRowsChoices == {NoneOpt, Some(1), Some(DeleteLimit + 10)}

DeleteRowsCall ==
    \E conditions \in {NoneOpt} \cup {Some(c) : c \in ConditionChoices},
       max_rows \in MaxRowsChoices, backup_ok \in BOOLEAN, save_ok \in BOOLEAN :
        /\ Fresh
        /\ Apply(delete_rows(workbook, file, structure, backups, clock, SheetName,
                             conditions, max_rows, backup_ok, save_ok))
        /\ lastOp' = [name |-> "delete_rows", conditions |-> conditions, max_rows |-> max_rows]
        /\ UNCHANGED clock
        /\ UNCHANGED cpVars
        /\ UNCHANGED auxVars

DelNext == DeleteDataCall \/ DeleteRowsCall

DelInit ==
    /\ \E wb \in SmallSheets \cup BigSheets : Loaded(wb)
    /\ CommandProcessorIdle
    /\ ServicesIdle

SpecDel == DelInit /\ [][DelNext]_vars

----------------------------------------------------------------------------
(* The other mutating operations as actions *)

ValueChoices ==
    {NoneOpt,
     Some([is_dict |-> FALSE, scalar |-> Text("7"), dict |-> <<>>]),
     Some([is_dict |-> TRUE, scalar |-> None, dict |-> ByName(Num("7"))]),
     Some([is_dict |-> TRUE, scalar |-> None, dict |-> <<>>])}

UpdateCellsCall ==
    \E range \in {NoneOpt} \cup {Some(ref) : ref \in RangeRefs}, values \in ValueChoices,
       conditions \in {NoneOpt, Some(ByName(Cond("plain", Text("7")))),
                                Some("Other" :> Cond("plain", Text("7")))},
       backup_ok \in BOOLEAN, save_ok \in BOOLEAN :
        /\ Fresh
        /\ Apply(update_cells(workbook, file, structure, backups, clock, SheetName,
                              range, values, conditions, backup_ok, save_ok))
        /\ lastOp' = [name |-> "update_cells", range |-> range, values |-> values,
                      conditions |-> conditions]
        /\ UNCHANGED clock
        /\ UNCHANGED cpVars
        /\ UNCHANGED auxVars

UpdateCellCall ==
    \E cell_reference \in RangeRefs, new_value \in DataVals,
       backup_ok \in BOOLEAN, save_ok \in BOOLEAN :
        /\ Fresh
        /\ Apply(update_cell(workbook, file, structure, backups, clock, SheetName,
                             cell_reference, new_value, backup_ok, save_ok))
        /\ lastOp' = [name |-> "update_cell", cell_reference |-> cell_reference,
                      new_value |-> new_value]
        /\ UNCHANGED clock
        /\ UNCHANGED cpVars
        /\ UNCHANGED auxVars

InsertRowCall ==
    \E values \in {<<>>, <<Text("7")>>, <<Num("7"), Text("7")>>, <<None>>},
       target_row \in {NoneOpt, Some(0), Some(1), Some(2)},
       backup_ok \in BOOLEAN, save_ok \in BOOLEAN :
        /\ Fresh
        /\ Apply(insert_row(workbook, file, structure, backups, clock,
                            InsertionData(values, SheetName, target_row), backup_ok, save_ok))
        /\ lastOp' = [name |-> "insert_row", values |-> values, target_row |-> target_row]
        /\ UNCHANGED clock
        /\ UNCHANGED cpVars
        /\ UNCHANGED auxVars

CreateChartCall ==
    \E data_range \in DataRanges, chart_type \in {"pie", "radar"},
       has_excel_service \in BOOLEAN, save_ok \in BOOLEAN :
        /\ Fresh
        /\ Apply(create_chart(workbook, file, structure, backups, SheetName, data_range,
                              chart_type, has_excel_service, save_ok))
        /\ lastOp' = [name |-> "create_chart", data_range |-> data_range,
                      chart_type |-> chart_type, has_excel_service |-> has_excel_service]
        /\ UNCHANGED clock
        /\ UNCHANGED cpVars
        /\ UNCHANGED auxVars

MutNext ==
    \/ Tick
    \/ DeleteDataCall
    \/ DeleteRowsCall
    \/ UpdateCellsCall
    \/ UpdateCellCall
    \/ InsertRowCall
    \/ CreateChartCall

MutInit ==
    /\ \E wb \in SmallSheets : Loaded(wb)
    /\ CommandProcessorIdle
    /\ ServicesIdle

SpecMut == MutInit /\ [][MutNext]_vars

----------------------------------------------------------------------------
(* Commands submitted to the Command Processor *)

\* command texts, as lower-cased words: harmless; a risk keyword inside a
\* word only; a mass-operation pattern with a risk keyword
CommandTexts ==
    { <<"show", "sales", "data">>,
      <<"show", "small", "values">>,
      <<"delete", "everything">> }

\* for the Safety Manager alone, also a dangerous range pattern without
\* any risk keyword
SafetyTexts == CommandTexts \cup { <<"clear", "range", "a:z">> }

OnSheet == ("sheet_name" :> SheetName)

TextSeven == [is_dict |-> FALSE, scalar |-> Text("7"), dict |-> <<>>]

\* structured commands the LLM Client may return, whatever the text
ParsedCommands ==
    { LLMResponse("data_operations", "query_data", OnSheet, "low"),
      LLMResponse("data_operations", "query_data", OnSheet, "critical"),
      LLMResponse("data_operations", "delete_rows",
                  OnSheet @@ ("conditions" :> ByName(Cond("plain", Text("7")))), "high"),
      LLMResponse("data_operations", "delete_rows", OnSheet @@ ("conditions" :> <<>>), "high"),
      LLMResponse("data_operations", "delete_rows",
                  OnSheet @@ ("conditions" :> ByName(Cond("plain", Text("7"))))
                          @@ ("max_rows" :> DeleteLimit + 10), "high"),
      LLMResponse("data_operations", "update_cells",
                  OnSheet @@ ("range" :> "A2") @@ ("values" :> TextSeven), "medium"),
      LLMResponse("data_operations", "update_cells",
                  OnSheet @@ ("range" :> "A1:A60") @@ ("values" :> TextSeven), "medium"),
      LLMResponse("visualization_operations", "create_chart",
                  OnSheet @@ ("data_range" :> "A1:A2") @@ ("chart_type" :> "pie"), "low"),
      LLMResponse("visualization_operations", "create_chart",
                  OnSheet @@ ("data_range" :> "A1:A2"), "low"),
      LLMResponse("data_operations", "create_chart",
                  OnSheet @@ ("data_range" :> "A1:A2") @@ ("chart_type" :> "pie"), "low"),
      LLMResponse("data_operations", "format_all", OnSheet, "low"),
      LLMResponse("clarification_needed", "", ("error" :> "ambiguous"), "low") }

\* operation and parameters handed to the Safety Manager directly
SafetyRequests ==
    { <<r.operation, r.parameters>> : r \in ParsedCommands }
    \cup { <<"delete_all", OnSheet>>,
           <<"update_cells", OnSheet @@ ("range" :> "A:Z") @@ ("values" :> TextSeven)>>,
           <<"update_cells", OnSheet @@ ("range" :> "bad") @@ ("values" :> TextSeven)>>,
           <<"update_cells", OnSheet @@ ("range" :> "A2")
                 @@ ("values" :> [is_dict |-> FALSE, scalar |-> Text("=1+1"), dict |-> <<>>])>>,
           <<"create_chart", OnSheet @@ ("data_range" :> "Sheet1") @@ ("chart_type" :> "PIE")>>,
           <<"create_chart", OnSheet @@ ("data_range" :> "A1:A2") @@ ("chart_type" :> "donut")>>,
           <<"delete_rows", OnSheet @@ ("conditions" :> ByName(Cond("plain", Text("all"))))>>,
           <<"delete_rows", ("sheet_name" :> "") @@ ("conditions" :> <<>>)>>,
           <<"delete_rows", OnSheet @@ ("conditions" :> ByName(Cond("plain", Text("7"))))
                 @@ ("max_rows" :> DefaultMaxRows + 10)>> }

\* worksheets loaded when commands are processed
CommandSheets ==
    { Sheet(Text("Name"), <<Text("7"), Num("7")>>),
      Sheet(Text("Name"), <<>>) }

CurrentSys ==
    [workbook |-> workbook, file |-> file, structure |-> structure, backups |-> backups,
     pending |-> pending, nextId |-> nextId, execLog |-> execLog]

ApplyDone(d) ==
    /\ workbook' = d.sys.workbook
    /\ file' = d.sys.file
    /\ structure' = d.sys.structure
    /\ backups' = d.sys.backups
    /\ pending' = d.sys.pending
    /\ nextId' = d.sys.nextId
    /\ execLog' = d.sys.execLog
    /\ result' = d.result
    /\ lastSafety' = d.safety
    /\ events' = d.events

Answers == {NoneOpt, Some(TRUE), Some(FALSE)}

\* a new command: no confirmation id
ProcessCommandCall ==
    \E user_command \in CommandTexts,
       parsed \in {NoneOpt} \cup {Some(r) : r \in ParsedCommands},
       backup_ok \in BOOLEAN, save_ok \in BOOLEAN :
        /\ calls < MaxCommands
        /\ \E done \in {process_command(CurrentSys, user_command, parsed, NoneOpt, NoneOpt,
                                        Env(clock, backup_ok, save_ok))} : ApplyDone(done)
        /\ lastOp' = [name |-> "process_command", user_command |-> user_command,
                      parsed |-> parsed, confirmation_id |-> NoneOpt,
                      user_confirmed |-> NoneOpt]
        /\ calls' = calls + 1
        /\ UNCHANGED clock
        /\ UNCHANGED auxVars

\* a reply naming a confirmation id that was handed out, pending or spent,
\* or one that never was, with an affirmative, a negative or no answer
ConfirmationReplyCall ==
    \E confirmation_id \in 1..(nextId + 1), user_confirmed \in Answers,
       parsed \in {NoneOpt, Some(LLMResponse("data_operations", "query_data", OnSheet, "low"))},
       backup_ok \in BOOLEAN, save_ok \in BOOLEAN :
        /\ calls < MaxCommands
        /\ \E done \in {process_command(CurrentSys, <<"yes">>, parsed, Some(confirmation_id),
                                        user_confirmed, Env(clock, backup_ok, save_ok))} :
               ApplyDone(done)
        /\ lastOp' = [name |-> "process_command", user_command |-> <<"yes">>,
                      parsed |-> parsed, confirmation_id |-> Some(confirmation_id),
                      user_confirmed |-> user_confirmed]
        /\ calls' = calls + 1
        /\ UNCHANGED clock
        /\ UNCHANGED auxVars

ProcessCommandWithFieldsCall ==
    \E original_command \in CommandTexts, sheet_name \in {SheetName, "Nope"},
       category_field \in {"Name", "Other"}, value_field \in {"Name", "Other"},
       save_ok \in BOOLEAN :
        /\ calls < MaxCommands
        /\ \E done \in {process_command_with_fields(CurrentSys, original_command, sheet_name,
                                                    category_field, value_field,
                                                    Env(clock, TRUE, save_ok))} :
               ApplyDone(done)
        /\ lastOp' = [name |-> "process_command_with_fields",
                      original_command |-> original_command, sheet_name |-> sheet_name,
                      category_field |-> category_field, value_field |-> value_field]
        /\ calls' = calls + 1
        /\ UNCHANGED clock
        /\ UNCHANGED auxVars

\* SafetyManager.evaluate_operation called on its own
EvaluateOperationCall ==
    \E request \in SafetyRequests, command_text \in SafetyTexts,
       sheet_info \in {NoneOpt, Some(get_sheet_info(structure))} :
        /\ Fresh
        /\ lastSafety' = evaluate_operation(request[1], request[2], command_text, sheet_info)
        /\ lastOp' = [name |-> "evaluate_operation", operation |-> request[1],
                      parameters |-> request[2], command_text |-> command_text]
        /\ result' = NoResult
        /\ events' = <<>>
        /\ UNCHANGED <<workbook, file, structure, backups, clock, pending, nextId, execLog, calls>>
        /\ UNCHANGED auxVars

CPNext ==
    \/ ProcessCommandCall
    \/ ConfirmationReplyCall
    \/ ProcessCommandWithFieldsCall
    \/ EvaluateOperationCall

CPInit ==
    /\ \E wb \in CommandSheets : Loaded(wb)
    /\ CommandProcessorIdle
    /\ ServicesIdle

SpecCP == CPInit /\ [][CPNext]_vars

----------------------------------------------------------------------------
(* Properties of the deletion handler and the delete_rows wrapper *)

IsCall(op, name) == op # NoOp /\ op.name = name

\* the data rows a condition set selects, as the preview reports them:
\* rows holding a value whose record satisfies every condition
PreviewedRows(wb, st, conditions) ==
    {r \in 2..max_row(wb) :
        /\ get_sheet_info(st).headers # <<>>
        /\ CellAt(wb, r) # None
        /\ RecordMatches(get_sheet_info(st).headers[1] :> CellAt(wb, r), conditions)}

\* the data rows the delete_rows wrapper's row test selects
WrapperMatchingRows(wb, conditions) ==
    {r \in 2..max_row(wb) : ShouldDelete(wb, SheetHeaders(wb), conditions, r)}

\* the request passes validation and its preview can be computed
Previewable(wb, st, req) ==
    /\ _validate_deletion_data(req)
    /\ _preview_deletion(wb, st, req).success
    /\ _preview_deletion(wb, st, req).affected_rows <= DeleteLimit

\* a deletion request naming row 1 by row number or by range
TargetsHeaderRow(req) ==
    \/ /\ ~IsNone(req.target_rows)
       /\ \E i \in 1..Len(Val(req.target_rows)) : Val(req.target_rows)[i] = 1
    \/ /\ ~IsNone(req.target_range)
       /\ 1 \in RangeRowsOf(Val(req.target_range))

\* no save failed among the events
SavesSucceeded(ev) == \A i \in 1..Len(ev) : ev[i] # "save_failed"

\* C5: a deletion that would affect more than 50 rows is rejected and
\* removes no rows, through the handler (delete_data) and through the
\* registry wrapper (delete_rows), whatever the confirmation state
\* (stated for calls in which no save fails).
C5_BroadDeletionRejected ==
    [][ SavesSucceeded(events') =>
        /\ ( /\ IsCall(lastOp', "delete_data")
             /\ _validate_deletion_data(lastOp'.req)
             /\ _preview_deletion(workbook, structure, lastOp'.req).success
             /\ _preview_deletion(workbook, structure, lastOp'.req).affected_rows > DeleteLimit )
           => (~result'.success /\ workbook' = workbook)
        /\ ( /\ IsCall(lastOp', "delete_rows")
             /\ Cardinality(WrapperMatchingRows(workbook, lastOp'.conditions)) > DeleteLimit )
           => (~result'.success /\ workbook' = workbook) ]_vars

\* C6: a delete-by-condition (at least one condition) that reports success
\* removes exactly the rows its preview reported, wherever empty rows lie.
C6_DeletesPreviewedRows ==
    [][ ( /\ IsCall(lastOp', "delete_data")
          /\ ~IsNone(lastOp'.req.conditions)
          /\ DOMAIN Val(lastOp'.req.conditions) # {}
          /\ result'.message = "deleted" )
        => workbook'.rows =
             RowsOutside(workbook, PreviewedRows(workbook, structure, Val(lastOp'.req.conditions)))
      ]_vars

\* C7: a deletion request that targets row 1 is rejected and the header
\* cell keeps its value (stated for calls in which no save fails).
C7_HeaderRowProtected ==
    [][ ( /\ IsCall(lastOp', "delete_data")
          /\ TargetsHeaderRow(lastOp'.req)
          /\ SavesSucceeded(events') )
        => (~result'.success /\ workbook'.header = workbook.header) ]_vars

\* C8: delete_data called with confirmation_required and not confirmed
\* leaves the worksheet, the saved file and the backups as they were and
\* attempts no backup or save; when the request passes validation and
\* its preview is within the limit, the result asks for confirmation and
\* carries the preview's count and records.
C8_UnconfirmedDeletionIsPreviewOnly ==
    [][ ( /\ IsCall(lastOp', "delete_data")
          /\ lastOp'.req.confirmation_required
          /\ ~lastOp'.confirmed )
        => /\ workbook' = workbook
           /\ file' = file
           /\ backups' = backups
           /\ events' = <<>>
           /\ Previewable(workbook, structure, lastOp'.req)
                => /\ result'.requires_confirmation
                   /\ ~result'.success
                   /\ result'.affected_rows =
                         _preview_deletion(workbook, structure, lastOp'.req).affected_rows
                   /\ result'.deleted_data =
                         _preview_deletion(workbook, structure, lastOp'.req).deleted_data
      ]_vars

\* C8 witness: an unconfirmed request came back asking for confirmation
\* with a preview of at least one row
C8_Witness ==
    /\ IsCall(lastOp, "delete_data")
    /\ lastOp.req.confirmation_required
    /\ ~lastOp.confirmed
    /\ result.requires_confirmation
    /\ result.affected_rows > 0
    /\ Len(result.deleted_data) = result.affected_rows

----------------------------------------------------------------------------
(* Properties of the mutating operations *)

\* position of the first save in a sequence of events, 0 if there is none
FirstSave(ev) ==
    IF \E j \in 1..Len(ev) : ev[j] = "save"
    THEN CHOOSE j \in 1..Len(ev) : ev[j] = "save" /\ \A k \in 1..(j - 1) : ev[k] # "save"
    ELSE 0

\* C9: whenever an operation changes the file on disk, it attempted a
\* backup before the save that wrote the change.
C9_BackupBeforeSave ==
    [][ file' # file
        => \E i \in 1..Len(events') : events'[i] = "backup" /\ i < FirstSave(events') ]_vars

\* C10: once a mutating operation has returned with success, the structure
\* record is the analysis of the workbook held in memory.
C10_StructureDescribesWorkbook ==
    (lastOp # NoOp /\ result.success) => structure = _analyze_structure(workbook)

----------------------------------------------------------------------------
(* Properties of the Command Processor and the Safety Manager *)

IsProcessorCall(op) ==
    op # NoOp /\ op.name \in {"process_command", "process_command_with_fields"}

ExcelUnchanged == <<workbook, file, structure, backups>>' = <<workbook, file, structure, backups>>

\* the call is a reply to a confirmation that is pending
RepliesTo(op, pend) ==
    /\ IsCall(op, "process_command")
    /\ ~IsNone(op.confirmation_id)
    /\ Val(op.confirmation_id) \in DOMAIN pend

C2_ConfirmationGatesExecution ==
    [][ /\ (IsProcessorCall(lastOp') /\ result'.status = "confirmation_required")
            => /\ execLog' = execLog
               /\ ExcelUnchanged
               /\ Val(result'.confirmation_id) \notin DOMAIN pending
               /\ Val(result'.confirmation_id) \in DOMAIN pending'
               /\ pending'[Val(result'.confirmation_id)].safety_result = lastSafety'
               /\ lastSafety'.confirmation_required
        /\ (Len(execLog') > Len(execLog)
               /\ execLog'[Len(execLog')].safety_result.confirmation_required)
            => /\ RepliesTo(lastOp', pending)
               /\ lastOp'.user_confirmed = Some(TRUE)
               /\ pending[Val(lastOp'.confirmation_id)].llm_response
                      = execLog'[Len(execLog')].llm_response
               /\ Val(lastOp'.confirmation_id) \notin DOMAIN pending'
        /\ (RepliesTo(lastOp', pending) /\ lastOp'.user_confirmed # Some(TRUE))
            => /\ execLog' = execLog
               /\ ExcelUnchanged
               /\ result'.status = "failed"
               /\ Val(lastOp'.confirmation_id) \notin DOMAIN pending' ]_vars

\* a command that required confirmation has been executed by the reply
\* that confirmed it
C2_Witness ==
    /\ IsCall(lastOp, "process_command")
    /\ ~IsNone(lastOp.confirmation_id)
    /\ lastOp.user_confirmed = Some(TRUE)
    /\ Len(execLog) = 1
    /\ execLog[1].safety_result.confirmation_required
    /\ Val(lastOp.confirmation_id) \notin DOMAIN pending
    /\ result.status = "success"

\* C3: a call whose safety evaluation carries validator errors
\* (validation_result.valid = false, hence safe = false) returns failed or
\* blocked and invokes no bound function.
C3_ValidatorErrorsStopExecution ==
    [][ (IsProcessorCall(lastOp') /\ lastSafety'.evaluated
             /\ ~lastSafety'.validation_result.valid)
            => /\ ~lastSafety'.safe
               /\ result'.status \in {"failed", "blocked"}
               /\ execLog' = execLog ]_vars

\* C4: in every SafetyResult, blocked is true exactly when the Command
\* Blocker blocked the command, or the Risk Assessor's level is dangerous,
\* or the Scope Analyzer's estimate exceeds 50 rows or 20 columns.
C4_BlockedIffAnyGuardFired ==
    lastSafety.evaluated =>
        (lastSafety.blocked <=>
            \/ lastSafety.block_result.blocked
            \/ lastSafety.risk_assessment.level = "dangerous"
            \/ lastSafety.scope_analysis.estimated_rows > safety_max_rows
            \/ lastSafety.scope_analysis.estimated_columns > safety_max_columns)

\* a SafetyResult blocked by the Scope Analyzer alone
C4_Witness ==
    /\ lastSafety.evaluated
    /\ lastSafety.blocked
    /\ ~lastSafety.block_result.blocked
    /\ lastSafety.risk_assessment.level # "dangerous"
    /\ ~lastSafety.scope_analysis.within_limits

----------------------------------------------------------------------------
(* Backups made one after the other for the same file.  The backup file    *)
(* name carries the time stamp to the second, so the backup directory is   *)
(* a function from time stamps to file contents.                           *)

BackupTick ==
    /\ clock < MaxBackupCalls - 1
    /\ clock' = clock + 1
    /\ UNCHANGED <<workbook, file, structure, backups, lastOp, result, events>>
    /\ UNCHANGED cpVars
    /\ UNCHANGED auxVars

\* a call of ExcelService.create_backup; it returns the backup's path, or
\* None when the copy fails
CreateBackupCall ==
    \E backup_ok \in BOOLEAN :
        /\ backupLog.made < MaxBackupCalls
        /\ backups' = create_backup(backups, file, clock, backup_ok)
        /\ backupLog' = IF backup_ok
                        THEN [made |-> backupLog.made + 1,
                              stamps |-> backupLog.stamps \cup {clock}]
                        ELSE backupLog
        /\ lastOp' = [name |-> "create_backup", now |-> clock]
        /\ result' = [success |-> backup_ok, message |-> "backup",
                      path |-> IF backup_ok THEN Some(clock) ELSE NoneOpt]
        /\ events' = <<"backup">>
        /\ UNCHANGED <<workbook, file, structure, clock>>
        /\ UNCHANGED notBak

BakNext == BackupTick \/ CreateBackupCall

BakInit ==
    /\ Loaded(Sheet(Text("Name"), <<Text("7")>>))
    /\ CommandProcessorIdle
    /\ ServicesIdle

SpecBak == BakInit /\ [][BakNext]_vars

\* C11: after a create_backup call that returned a path, the backups kept
\* number min(backups created, max_backups), and every backup kept was
\* created later than every backup no longer kept.
C11_RetentionKeepsNewest ==
    (lastOp # NoOp /\ lastOp.name = "create_backup" /\ result.success)
        => /\ Cardinality(DOMAIN backups) = Min(backupLog.made, max_backups)
           /\ \A t \in DOMAIN backups, u \in backupLog.stamps \ DOMAIN backups : u < t

----------------------------------------------------------------------------
(* Calls through the LLM circuit breaker *)

\* the latest outcomes, as many as the failure threshold
Latest(log) ==
    IF Len(log) > ollama_failure_threshold THEN Tail(log) ELSE log

\* time passes between calls: a second, or just short of the cool-down
BreakerWait ==
    \E seconds \in {1, ollama_recovery_timeout - 1} :
        /\ clock + seconds <= MaxBreakerClock
        /\ clock' = clock + seconds
        /\ UNCHANGED <<workbook, file, structure, backups, lastOp, result, events>>
        /\ UNCHANGED cpVars
        /\ UNCHANGED auxVars

\* ollama_circuit_breaker.call(func) at the current time
BreakerCall ==
    \E func_ok \in BOOLEAN :
        \E done \in {call(breaker, clock, func_ok)} :
            /\ breaker' = done.breaker
            /\ breakerLog' = IF done.invoked THEN Latest(Append(breakerLog, func_ok))
                             ELSE breakerLog
            /\ lastOp' = [name |-> "call", now |-> clock, func_ok |-> func_ok]
            /\ result' = [success |-> ~done.raised, message |-> "call",
                          invoked |-> done.invoked, trial |-> done.trial]
            /\ events' = <<>>
            /\ UNCHANGED <<workbook, file, structure, backups, clock>>
            /\ UNCHANGED notBrk

\* reset_circuit_breakers(): a fresh start, with no outcomes on record
BreakerReset ==
    /\ breaker' = reset_circuit_breakers(breaker)
    /\ breakerLog' = <<>>
    /\ lastOp' = [name |-> "reset_circuit_breakers"]
    /\ result' = NoResult
    /\ events' = <<>>
    /\ UNCHANGED <<workbook, file, structure, backups, clock>>
    /\ UNCHANGED notBrk

BrkNext == BreakerWait \/ BreakerCall \/ BreakerReset

BrkInit ==
    /\ Loaded(Sheet(Text("Name"), <<Text("7")>>))
    /\ CommandProcessorIdle
    /\ ServicesIdle

SpecBrk == BrkInit /\ [][BrkNext]_vars

\* the step is a call made through the breaker at the current time
BreakerCallStep ==
    /\ IsCall(lastOp', "call")
    /\ clock' = clock
    /\ lastOp'.now = clock

\* the last ollama_failure_threshold calls passed on all failed
ConsecutiveFailures(log) ==
    /\ Len(log) >= ollama_failure_threshold
    /\ \A i \in 1..Len(log) : ~log[i]

\* the cool-down since the last failure is over
CooledDown(b, now) ==
    ~IsNone(b.last_failure_time) /\ now - Val(b.last_failure_time) >= ollama_recovery_timeout

\* C12: the breaker starts closed with no failures counted; after every
\* call it is open exactly when the last 3 calls passed on have all failed,
\* and closed otherwise; an open breaker whose last failure is 30 s or more
\* in the past passes the call on as a trial; a call that succeeds leaves
\* it closed with a failure count of 0; a trial that fails leaves it open.
C12_BreakerLifecycle ==
    /\ (breaker.state = "closed" /\ breaker.failure_count = 0)
    /\ [][ BreakerCallStep =>
            /\ breaker'.state = (IF ConsecutiveFailures(breakerLog') THEN "open" ELSE "closed")
            /\ (breaker.state = "open" /\ CooledDown(breaker, clock))
                   => (result'.invoked /\ result'.trial)
            /\ (result'.invoked /\ result'.success)
                   => (breaker'.state = "closed" /\ breaker'.failure_count = 0)
            /\ (result'.trial /\ ~result'.success) => breaker'.state = "open" ]_vars

\* a trial call made after the cool-down succeeded and closed the breaker
C12_Witness ==
    /\ IsCall(lastOp, "call")
    /\ result.trial /\ result.success
    /\ breaker.state = "closed" /\ breaker.failure_count = 0
    /\ breakerLog = <<FALSE, FALSE, TRUE>>

\* C13: a call made while the breaker is open and fewer than 30 s have
\* passed since the last failure raises at once: the wrapped function is
\* not invoked and the breaker is left as it was.
C13_OpenBreakerRejects ==
    [][ ( /\ BreakerCallStep
          /\ breaker.state = "open"
          /\ ~IsNone(breaker.last_failure_time)
          /\ clock - Val(breaker.last_failure_time) < ollama_recovery_timeout )
        => /\ ~result'.invoked
           /\ ~result'.success
           /\ breaker' = breaker
           /\ breakerLog' = breakerLog ]_vars

\* a call was rejected by the open breaker one second before the cool-down
\* was over
C13_Witness ==
    /\ IsCall(lastOp, "call")
    /\ ~result.invoked /\ ~result.success
    /\ breaker.state = "open"
    /\ clock - Val(breaker.last_failure_time) = ollama_recovery_timeout - 1

----------------------------------------------------------------------------
(* Recovery chains: the caller hands each new_context to the next call *)

\* a failure is escalated: create_recovery_context
RecoveryStart ==
    \E handler \in {"ollama", "operation"}, max_attempts \in 0..MaxAttempts,
       backup_path \in {NoneOpt, Some(0), Some(1)} :
        /\ IsNone(recovery.context)
        /\ recovery.chains < MaxChains
        /\ recovery' = [handler |-> handler,
                        context |-> Some(create_recovery_context(max_attempts, backup_path)),
                        max_attempts |-> max_attempts, retries |-> 0, attempts |-> 0,
                        chains |-> recovery.chains + 1, last |-> "none"]
        /\ lastOp' = [name |-> "create_recovery_context"]
        /\ result' = NoResult
        /\ events' = <<>>
        /\ UNCHANGED <<workbook, file, structure, backups, clock>>
        /\ UNCHANGED brkVars
        /\ UNCHANGED notRec

\* the chain after a handler returned r
Threaded(r, called) ==
    [recovery EXCEPT !.context = r.new_context,
                     !.retries = @ + (IF r.action_taken = "retry_operation" THEN 1 ELSE 0),
                     !.attempts = @ + (IF called THEN 1 ELSE 0),
                     !.last = r.action_taken]

\* handle_ollama_connection_failure(context) with the threaded context
RecoveryOllamaStep ==
    \E func_ok \in BOOLEAN :
        /\ recovery.handler = "ollama"
        /\ ~IsNone(recovery.context)
        /\ \E done \in {handle_ollama_connection_failure(Val(recovery.context), breaker,
                                                         clock, func_ok)} :
            /\ recovery' = Threaded(done.result, done.called)
            /\ breaker' = done.breaker
            /\ breakerLog' = IF done.invoked THEN Latest(Append(breakerLog, func_ok))
                             ELSE breakerLog
            /\ clock' = done.now
            /\ lastOp' = [name |-> "handle_ollama_connection_failure",
                          context |-> Val(recovery.context), called |-> done.called]
            /\ result' = [success |-> done.result.success, message |-> "recovery",
                          action_taken |-> done.result.action_taken]
        /\ events' = <<>>
        /\ UNCHANGED <<workbook, file, structure, backups>>
        /\ UNCHANGED notRec

\* handle_operation_failure(context) with the threaded context
RecoveryOperationStep ==
    \E copy_ok \in BOOLEAN :
        /\ recovery.handler = "operation"
        /\ ~IsNone(recovery.context)
        /\ \E done \in {handle_operation_failure(Val(recovery.context), workbook, file,
                                                 backups, copy_ok)} :
            /\ recovery' = Threaded(done.result, FALSE)
            /\ workbook' = done.workbook
            /\ file' = done.file
            /\ structure' = IF done.result.action_taken = "restore_backup"
                            THEN _analyze_structure(done.workbook) ELSE structure
            /\ lastOp' = [name |-> "handle_operation_failure",
                          context |-> Val(recovery.context), called |-> done.tried_restore]
            /\ result' = [success |-> done.result.success, message |-> "recovery",
                          action_taken |-> done.result.action_taken]
        /\ events' = <<>>
        /\ UNCHANGED <<backups, clock>>
        /\ UNCHANGED brkVars
        /\ UNCHANGED notRec

\* time passes between two escalated failures: the breaker's cool-down
RecoveryPause ==
    /\ IsNone(recovery.context)
    /\ clock + ollama_recovery_timeout <= MaxBreakerClock
    /\ clock' = clock + ollama_recovery_timeout
    /\ UNCHANGED <<workbook, file, structure, backups, lastOp, result, events>>
    /\ UNCHANGED cpVars
    /\ UNCHANGED auxVars

RecoveryStep == RecoveryOllamaStep \/ RecoveryOperationStep

RecNext == RecoveryStart \/ RecoveryOllamaStep \/ RecoveryOperationStep \/ RecoveryPause

\* a workbook edited since its one backup was taken
RecInit ==
    /\ workbook = Sheet(Text("Name"), <<Text("7"), Text("8")>>)
    /\ file = workbook
    /\ structure = _analyze_structure(workbook)
    /\ backups = [t \in {0} |-> Sheet(Text("Name"), <<Text("7")>>)]
    /\ clock = 1
    /\ lastOp = NoOp
    /\ result = NoResult
    /\ events = <<>>
    /\ CommandProcessorIdle
    /\ ServicesIdle

\* the caller of the handlers keeps calling while a new_context is returned
SpecRec == RecInit /\ [][RecNext]_vars /\ WF_vars(RecoveryStep)

\* the step is a call of one of the two handlers
HandlerStep ==
    /\ ~IsNone(recovery.context)
    /\ recovery' # recovery
    /\ lastOp'.name \in {"handle_ollama_connection_failure", "handle_operation_failure"}

\* the call is made with a context that has used up its attempts
AtCeiling == Val(recovery.context).attempt_count >= recovery.max_attempts

\* no retry is signalled and no reconnection is attempted
EndsWithoutAttempt ==
    /\ IsNone(recovery'.context)
    /\ recovery'.retries = recovery.retries
    /\ recovery'.attempts = recovery.attempts
    /\ breaker' = breaker

\* C14 as stated: at most max_attempts retries are signalled in a chain,
\* the call that follows the last of them returns abort with no further
\* attempt, and every chain ends.
C14_AbortAtCeiling ==
    /\ [](recovery.retries <= recovery.max_attempts)
    /\ [][ (HandlerStep /\ AtCeiling /\ recovery.retries > 0)
             => (EndsWithoutAttempt /\ result'.action_taken = "abort_operation") ]_vars
    /\ (~IsNone(recovery.context) ~> IsNone(recovery.context))

\* C14: at most max_attempts retries are signalled in a chain; the call that
\* follows them signals no retry, makes no reconnection attempt and returns
\* no new context: it returns abort, or, from the operation-failure handler
\* whose backup restore succeeds in that call, restore-backup; and every
\* chain ends.
C14_BoundedRetries ==
    /\ [](recovery.retries <= recovery.max_attempts)
    /\ [][ (HandlerStep /\ AtCeiling)
             => /\ EndsWithoutAttempt
                /\ \/ result'.action_taken = "abort_operation"
                   \/ /\ lastOp'.name = "handle_operation_failure"
                      /\ result'.action_taken = "restore_backup"
                      /\ result'.success ]_vars
    /\ (~IsNone(recovery.context) ~> IsNone(recovery.context))

\* a chain signalled max_attempts retries and then ended in abort
C14_Witness ==
    /\ recovery.last = "abort_operation"
    /\ IsNone(recovery.context)
    /\ recovery.max_attempts = MaxAttempts
    /\ recovery.retries = recovery.max_attempts

----------------------------------------------------------------------------
(* OllamaService (llm/ollama_service.py): the retry loops and the decoding *)
(* of the server's answer.  An answer is a sequence of tokens: "{" and "}" *)
(* are braces, "k" the members of one command object, "4" a JSON number,   *)
(* "w" a word of prose and " " white space.                                *)

\* the server's behaviour during one attempt: a fault, or an answer text
ServerFaults == {"connection", "timeout", "http", "model_missing", "generate_failed"}

ReplyTexts ==
    { <<>>, <<" ">>, <<"w">>, <<"4">>, <<" ", "4">>,
      <<"{", "k", "}">>, <<"{", "}">>, <<"w", "{", "k", "}", "w">>,
      <<"{", "w", "}">>, <<"}", "{">>, <<"{", "k">>,
      <<"{", "k", "}", "{", "k", "}">> }

ServerReplies ==
    {[fault |-> f, text |-> <<>>] : f \in ServerFaults}
        \cup {[fault |-> "none", text |-> t] : t \in ReplyTexts}

\* str.strip()
Strip(text) ==
    LET inked == {i \in 1..Len(text) : text[i] # " "}
    IN IF inked = {} THEN <<>>
       ELSE SubSeq(text, CHOOSE i \in inked : \A j \in inked : i <= j,
                         CHOOSE i \in inked : \A j \in inked : i >= j)

\* str.find(c): the 0-based index of the first c, or -1
Find(text, c) ==
    LET at == {i \in 1..Len(text) : text[i] = c}
    IN IF at = {} THEN -1 ELSE (CHOOSE i \in at : \A j \in at : i <= j) - 1

\* str.rfind(c): the 0-based index of the last c, or -1
RFind(text, c) ==
    LET at == {i \in 1..Len(text) : text[i] = c}
    IN IF at = {} THEN -1 ELSE (CHOOSE i \in at : \A j \in at : i >= j) - 1

\* the dictionary the token "k" stands for
CommandMembers ==
    ("intent" :> "data_operations") @@ ("operation" :> "query_data")
        @@ ("parameters" :> OnSheet) @@ ("risk_assessment" :> "low")

\* json.loads: white space between tokens is skipped; a number, an empty
\* object and an object of members decode, anything else is a
\* JSONDecodeError
json_loads(text) ==
    LET IsInk(c) == c # " "
        tokens == SelectSeq(text, IsInk)
    IN CASE tokens = <<"4">> -> [ok |-> TRUE, is_dict |-> FALSE, data |-> <<>>]
         [] tokens = <<"{", "}">> -> [ok |-> TRUE, is_dict |-> TRUE, data |-> <<>>]
         [] tokens = <<"{", "k", "}">> -> [ok |-> TRUE, is_dict |-> TRUE, data |-> CommandMembers]
         [] OTHER -> [ok |-> FALSE, is_dict |-> FALSE, data |-> <<>>]

\* dict.get(key, default)
Get(d, key, default) == IF key \in DOMAIN d THEN d[key] ELSE default

\* OllamaService._create_llm_response
_create_llm_response(parsed_data) ==
    LLMResponse(Get(parsed_data, "intent", "unknown"),
                Get(parsed_data, "operation", "unknown"),
                Get(parsed_data, "parameters", <<>>),
                Get(parsed_data, "risk_assessment", "medium"))

\* the clarification the parser returns for an answer it cannot decode
ParseErrorResponse ==
    LLMResponse("clarification_needed", "parse_error",
                ("error" :> "Failed to parse LLM response"), "high")

\* one attempt of initialize_connection: GET /api/tags, the model check and
\* POST /api/generate
ConnectionAttempt(reply) ==
    CASE reply.fault \in {"connection", "timeout", "http"} ->
             [returns |-> FALSE, kind |-> reply.fault, requests |-> 1]
      [] reply.fault = "model_missing" ->
             [returns |-> FALSE, kind |-> "unexpected", requests |-> 1]
      [] reply.fault = "generate_failed" ->
             [returns |-> FALSE, kind |-> "http", requests |-> 2]
      [] OTHER -> [returns |-> TRUE, kind |-> "none", requests |-> 2]

\* what the decoding of a non-empty answer gives: a response to return, or
\* the AttributeError of _create_llm_response on a value that is no object
Decoded(raw_response) ==
    LET direct == json_loads(raw_response)
        json_start == Find(raw_response, "{")
        json_end == RFind(raw_response, "}") + 1
        inner == json_loads(SubSeq(raw_response, json_start + 1, json_end))
    IN IF direct.ok
       THEN [returns |-> direct.is_dict, response |-> _create_llm_response(direct.data)]
       ELSE IF json_start >= 0 /\ json_end > json_start /\ inner.ok
       THEN [returns |-> inner.is_dict, response |-> _create_llm_response(inner.data)]
       ELSE [returns |-> TRUE, response |-> ParseErrorResponse]

\* one attempt of parse_to_structured_command: POST /api/generate and the
\* decoding of the answer
ParseAttempt(reply) ==
    IF reply.fault \in {"connection", "timeout", "http"}
    THEN [returns |-> FALSE, kind |-> reply.fault, response |-> ParseErrorResponse]
    ELSE IF reply.fault \in {"model_missing", "generate_failed"}
    THEN [returns |-> FALSE, kind |-> "http", response |-> ParseErrorResponse]
    ELSE IF Strip(reply.text) = <<>>
    THEN [returns |-> FALSE, kind |-> "unexpected", response |-> ParseErrorResponse]
    ELSE LET decoded == Decoded(Strip(reply.text))
         IN [returns |-> decoded.returns, kind |-> "unexpected", response |-> decoded.response]

\* an error kept from the first failed attempt on
FirstError(last_error, kind, attempt) ==
    IF IsNone(last_error) THEN Some([kind |-> kind, attempt |-> attempt]) ELSE last_error

\* last_error = OllamaConnectionError(...) in the except clauses
LastError(last_error, kind, attempt) == Some([kind |-> kind, attempt |-> attempt])

\* what the loops raise after the last attempt
Raised(last_error, attempts, requests) ==
    [raised |-> TRUE, returned |-> NoneOpt,
     error |-> IF IsNone(last_error) THEN Some([kind |-> "all_failed", attempt |-> 0])
               ELSE last_error,
     attempts |-> attempts, requests |-> requests]

RECURSIVE ConnectionLoop(_, _, _, _, _)
\* `for attempt in range(self.retry_attempts)` of initialize_connection
ConnectionLoop(script, retry_attempts, attempt, last_error, requests) ==
    IF attempt >= retry_attempts
    THEN Raised(last_error, attempt, requests)
    ELSE LET tried == ConnectionAttempt(script[attempt + 1])
         IN IF tried.returns
            THEN [raised |-> FALSE, returned |-> Some(TRUE), error |-> NoneOpt,
                  attempts |-> attempt + 1, requests |-> requests + tried.requests]
            ELSE ConnectionLoop(script, retry_attempts, attempt + 1,
                                LastError(last_error, tried.kind, attempt + 1),
                                requests + tried.requests)

\* OllamaService.initialize_connection against a server that behaves as
\* the script says, attempt by attempt
initialize_connection(script, retry_attempts) ==
    ConnectionLoop(script, retry_attempts, 0, NoneOpt, 0)

RECURSIVE ParseLoop(_, _, _, _)
\* `for attempt in range(self.retry_attempts)` of parse_to_structured_command
ParseLoop(script, retry_attempts, attempt, last_error) ==
    IF attempt >= retry_attempts
    THEN Raised(last_error, attempt, attempt)
    ELSE LET tried == ParseAttempt(script[attempt + 1])
         IN IF tried.returns
            THEN [raised |-> FALSE, returned |-> Some(tried.response), error |-> NoneOpt,
                  attempts |-> attempt + 1, requests |-> attempt + 1]
            ELSE ParseLoop(script, retry_attempts, attempt + 1,
                           LastError(last_error, tried.kind, attempt + 1))

\* OllamaService.parse_to_structured_command
parse_to_structured_command(script, retry_attempts) ==
    ParseLoop(script, retry_attempts, 0, NoneOpt)

\* CommandProcessor._parse_command: None when the LLM Client raises
_parse_command(script, retry_attempts) ==
    LET parsed == parse_to_structured_command(script, retry_attempts)
    IN IF parsed.raised THEN NoneOpt ELSE parsed.returned

----------------------------------------------------------------------------
(* Calls of the LLM Client against a server that answers as scripted *)

\* the script left once the first n answers are used up
Drop(script, n) == SubSeq(script, n + 1, Len(script))

\* OllamaService.initialize_connection()
InitializeConnectionCall ==
    /\ Len(llm.script) >= llm.retry_attempts
    /\ \E done \in {initialize_connection(llm.script, llm.retry_attempts)} :
        /\ llm' = [llm EXCEPT !.script = Drop(@, done.attempts)]
        /\ result' = [success |-> ~done.raised, message |-> "llm", attempts |-> done.attempts,
                      requests |-> done.requests, error |-> done.error]
    /\ lastOp' = [name |-> "initialize_connection", retry_attempts |-> llm.retry_attempts,
                  script |-> llm.script]
    /\ events' = <<>>
    /\ UNCHANGED <<workbook, file, structure, backups, clock>>
    /\ UNCHANGED cpVars
    /\ UNCHANGED notLLM

\* OllamaService.parse_to_structured_command(user_command)
ParseCall ==
    /\ Len(llm.script) >= llm.retry_attempts
    /\ \E done \in {parse_to_structured_command(llm.script, llm.retry_attempts)} :
        /\ llm' = [llm EXCEPT !.script = Drop(@, done.attempts)]
        /\ result' = [success |-> ~done.raised, message |-> "llm", attempts |-> done.attempts,
                      requests |-> done.requests, error |-> done.error]
    /\ lastOp' = [name |-> "parse_to_structured_command", retry_attempts |-> llm.retry_attempts,
                  script |-> llm.script]
    /\ events' = <<>>
    /\ UNCHANGED <<workbook, file, structure, backups, clock>>
    /\ UNCHANGED cpVars
    /\ UNCHANGED notLLM

\* CommandProcessor.process_command(user_command) with the LLM Client's
\* parse of the server's answers
LLMProcessCommandCall ==
    \E user_command \in {<<"show", "sales", "data">>}, backup_ok \in BOOLEAN, save_ok \in BOOLEAN :
        /\ calls < MaxCommands
        /\ Len(llm.script) >= llm.retry_attempts
        /\ \E parsed \in {_parse_command(llm.script, llm.retry_attempts)} :
            /\ \E done \in {process_command(CurrentSys, user_command, parsed, NoneOpt, NoneOpt,
                                            Env(clock, backup_ok, save_ok))} : ApplyDone(done)
            /\ lastOp' = [name |-> "process_command", user_command |-> user_command,
                          parsed |-> parsed, confirmation_id |-> NoneOpt,
                          user_confirmed |-> NoneOpt]
        /\ llm' = [llm EXCEPT !.script =
                      Drop(@, parse_to_structured_command(llm.script, llm.retry_attempts).attempts)]
        /\ calls' = calls + 1
        /\ UNCHANGED clock
        /\ UNCHANGED notLLM

LLMNext == InitializeConnectionCall \/ ParseCall \/ LLMProcessCommandCall

\* a service configured with some retry_attempts, and a server whose
\* behaviour during the coming attempts is fixed
LLMInit ==
    /\ Loaded(Sheet(Text("Name"), <<Text("7")>>))
    /\ CommandProcessorIdle
    /\ BackupsIdle /\ RecoveryIdle /\ CLIIdle /\ MainIdle /\ HotIdle /\ AuditIdle
    /\ RegistryIdle /\ CheckerIdle
    /\ \E retry_attempts \in 0..MaxRetryAttempts,
          script \in [1..MaxRetryAttempts -> ServerReplies] :
           llm = OllamaService(retry_attempts, script)

SpecLLM == LLMInit /\ [][LLMNext]_vars

\* C15: a call of initialize_connection or of parse_to_structured_command
\* makes at most retry_attempts attempts; when it raises, it has made all of
\* them and the error raised is the one of the last attempt.
C15_BoundedRequestAttempts ==
    (IsCall(lastOp, "initialize_connection") \/ IsCall(lastOp, "parse_to_structured_command"))
        => /\ result.attempts <= lastOp.retry_attempts
           /\ ~result.success
                 => /\ result.attempts = lastOp.retry_attempts
                    /\ lastOp.retry_attempts > 0
                          => /\ Val(result.error).attempt = lastOp.retry_attempts
                             /\ lastOp.script[lastOp.retry_attempts].fault
                                    \in {"connection", "timeout", "http"}
                                  => Val(result.error).kind
                                         = lastOp.script[lastOp.retry_attempts].fault

\* parse_to_structured_command raised the time-out of its last attempt
\* after a lost connection in the attempt before
C15_Witness ==
    /\ IsCall(lastOp, "parse_to_structured_command")
    /\ ~result.success
    /\ lastOp.retry_attempts = MaxRetryAttempts
    /\ result.attempts = MaxRetryAttempts
    /\ lastOp.script[MaxRetryAttempts - 1].fault = "connection"
    /\ Val(result.error) = [kind |-> "timeout", attempt |-> MaxRetryAttempts]

\* the text between the first "{" and the last "}" of an answer
OutermostBraces(text) ==
    IF Find(text, "{") >= 0 /\ RFind(text, "}") + 1 > Find(text, "{")
    THEN SubSeq(text, Find(text, "{") + 1, RFind(text, "}") + 1)
    ELSE <<>>

\* the server answers with a text, not an empty one, that is no JSON
\* object, as it stands or between its outermost braces
Undecodable(reply) ==
    /\ reply.fault = "none"
    /\ Strip(reply.text) # <<>>
    /\ ~(json_loads(reply.text).ok /\ json_loads(reply.text).is_dict)
    /\ ~(json_loads(OutermostBraces(reply.text)).ok
            /\ json_loads(OutermostBraces(reply.text)).is_dict)

\* C16: when the server's answer to process_command's request is a text
\* that cannot be decoded as a JSON command, directly or between its
\* outermost braces, process_command returns status clarification_needed,
\* invokes no bound function and leaves the workbook, the file and the
\* backups as they were.
C16_UndecodableAnswerAsksToClarify ==
    [][ ( /\ IsCall(lastOp', "process_command")
          /\ calls' = calls + 1
          /\ llm.retry_attempts > 0
          /\ Undecodable(llm.script[1]) )
        => /\ result'.status = "clarification_needed"
           /\ execLog' = execLog
           /\ ExcelUnchanged ]_vars

----------------------------------------------------------------------------
(* The interactive console (ui/cli_interface.py, ui/confirmation_handler.py) *)
(* A line of input is the sequence of its words.                            *)

\* ConfirmationHandler.positive_responses
positive_responses ==
    { <<"yes">>, <<"y">>, <<"ok">>, <<"okay">>, <<"proceed">>, <<"continue">>, <<"confirm">>,
      <<"go">>, <<"do", "it">>, <<"execute">>, <<"run">>, <<"sure">>, <<"absolutely">>,
      <<"affirmative">>, <<"correct">>, <<"right">>, <<"true">>, <<"1">> }

\* ConfirmationHandler.negative_responses
negative_responses ==
    { <<"no">>, <<"n">>, <<"cancel">>, <<"stop">>, <<"abort">>, <<"quit">>, <<"exit">>,
      <<"deny">>, <<"refuse">>, <<"reject">>, <<"negative">>, <<"false">>, <<"0">>,
      <<"nope">>, <<"nah">>, <<"never">>, <<"skip">>, <<"not">> }

\* user_input.lower().strip(), word by word
Normalized(user_input) == [i \in 1..Len(user_input) |-> Lower(user_input[i])]

\* ConfirmationHandler.parse_confirmation_response: True, False or None
parse_confirmation_response(user_input) ==
    LET normalized == Normalized(user_input)
        positive_found == \E i \in 1..Len(normalized) : <<normalized[i]>> \in positive_responses
        negative_found == \E i \in 1..Len(normalized) : <<normalized[i]>> \in negative_responses
    IN IF user_input = <<>> THEN NoneOpt
       ELSE IF normalized \in positive_responses THEN Some(TRUE)
       ELSE IF normalized \in negative_responses THEN Some(FALSE)
       ELSE IF positive_found /\ ~negative_found THEN Some(TRUE)
       ELSE IF negative_found /\ ~positive_found THEN Some(FALSE)
       ELSE NoneOpt

\* CLIInterface._handle_special_commands: what the line is taken for
_handle_special_commands(user_input) ==
    LET command == Normalized(user_input)
    IN IF command \in {<<"exit">>, <<"quit">>, <<"q">>} THEN "exit"
       ELSE IF command \in {<<"help">>, <<"h">>, <<"?">>, <<"clear">>, <<"cls">>, <<"status">>,
                            <<"operations">>, <<"history">>} THEN "shown"
       ELSE IF Len(command) >= 2 /\ command[1] \in {"load", "open"} THEN "load"
       ELSE "none"

\* CLIInterface._load_file: the session it leaves, and whether the Excel
\* Service loaded the file
_load_file(s, file_path, exists) ==
    IF file_path = <<>>
    THEN [session |-> [s EXCEPT !.state = "waiting_for_file"], loaded |-> FALSE]
    ELSE IF ~exists
    THEN [session |-> [s EXCEPT !.state = "ready"], loaded |-> FALSE]
    ELSE [session |-> [s EXCEPT !.state = "ready", !.current_file = Some(file_path)],
          loaded |-> TRUE]

\* CLIInterface._process_user_input: the handler the session state selects
_process_user_input(s) ==
    CASE s.state = "waiting_for_file" -> "_load_file"
      [] s.state = "waiting_for_confirmation" -> "_handle_confirmation_response"
      [] s.state = "waiting_for_clarification" -> "_handle_clarification_response"
      [] IsNone(s.current_file) -> "no_file"
      [] OTHER -> "_execute_command"

\* one pass of the loop of CLIInterface.start: where the line goes
Route(s, user_input) ==
    IF user_input = <<>> THEN "skipped"
    ELSE IF _handle_special_commands(user_input) # "none"
    THEN _handle_special_commands(user_input)
    ELSE _process_user_input(s)

\* the call of process_command the handler makes, if it makes one
ProcessorCall(route, s, user_input) ==
    CASE route = "_execute_command" ->
             Some([user_command |-> user_input, confirmation_id |-> NoneOpt,
                   user_confirmed |-> NoneOpt])
      [] route = "_handle_confirmation_response"
            /\ ~IsNone(parse_confirmation_response(user_input)) ->
             Some([user_command |-> user_input,
                   confirmation_id |-> s.pending_confirmation_id,
                   user_confirmed |-> parse_confirmation_response(user_input)])
      [] route = "_handle_clarification_response" /\ ~IsNone(s.clarification_context) ->
             Some([user_command |-> Val(s.clarification_context) \o user_input,
                   confirmation_id |-> NoneOpt, user_confirmed |-> NoneOpt])
      [] OTHER -> NoneOpt

\* CLIInterface._execute_command: the session after process_command
\* returned res
_execute_command(s, user_command, res) ==
    CASE res.status = "confirmation_required" ->
             [s EXCEPT !.state = "waiting_for_confirmation",
                       !.pending_confirmation_id = res.confirmation_id]
      [] res.status = "clarification_needed" ->
             [s EXCEPT !.state = "waiting_for_clarification",
                       !.clarification_context = Some(user_command)]
      [] OTHER -> [s EXCEPT !.state = "ready"]

\* a confirmation handler that returns to ready whatever the reply
CLI_handle_confirmation_response_resetting(s, user_input) ==
    [s EXCEPT !.state = "ready", !.pending_confirmation_id = NoneOpt]

\* CLIInterface._handle_confirmation_response: the session it leaves
CLI_handle_confirmation_response(s, user_input) ==
    IF IsNone(parse_confirmation_response(user_input))
    THEN s
    ELSE [s EXCEPT !.state = "ready", !.pending_confirmation_id = NoneOpt]

\* CLIInterface._handle_clarification_response: the session it leaves; the
\* commands entered here never mention a chart, so the reply is always
\* joined to the original command
_handle_clarification_response(s, user_input) ==
    [s EXCEPT !.state = "ready", !.clarification_context = NoneOpt]

\* the session after the handler of the line has run
SessionAfter(route, s, user_input, exists, res) ==
    CASE route = "exit" -> [s EXCEPT !.exited = TRUE]
      [] route = "load" -> _load_file(s, Tail(user_input), exists).session
      [] route = "_load_file" -> _load_file(s, user_input, exists).session
      [] route = "_execute_command" -> _execute_command(s, user_input, res)
      [] route = "_handle_confirmation_response" ->
             CLI_handle_confirmation_response(s, user_input)
      [] route = "_handle_clarification_response" ->
             _handle_clarification_response(s, user_input)
      [] OTHER -> s

\* lines the user may enter
CLIInputs ==
    { <<"yes">>, <<"no">>, <<"maybe">>, <<"yes", "no">>, <<"ok", "then">>, <<"do", "it">>,
      <<"do", "not">>, <<"quit">>, <<"status">>, <<"load", "a.xlsx">>,
      <<"show", "sales", "data">>, <<"delete", "everything">> }

\* what the LLM Client makes of a command entered at the console
CLIParses ==
    { NoneOpt,
      Some(LLMResponse("data_operations", "query_data", OnSheet, "low")),
      Some(LLMResponse("data_operations", "delete_rows",
                       OnSheet @@ ("conditions" :> ByName(Cond("plain", Text("7")))), "high")),
      Some(LLMResponse("clarification_needed", "", ("error" :> "ambiguous"), "low")) }

\* one pass of the loop of CLIInterface.start with the line user_input
CLIInput ==
    \E user_input \in CLIInputs, parsed \in CLIParses, exists \in BOOLEAN,
       backup_ok \in BOOLEAN, save_ok \in BOOLEAN :
        /\ ~session.exited
        /\ calls < MaxCommands
        /\ \E route \in {Route(session, user_input)} :
           \E made \in {ProcessorCall(route, session, user_input)} :
            /\ lastOp' = [name |-> "start", user_input |-> user_input, route |-> route,
                          call |-> made]
            /\ IF IsNone(made)
               THEN /\ session' = SessionAfter(route, session, user_input, exists, result)
                    /\ IF route \in {"load", "_load_file"}
                          /\ _load_file(session, IF route = "load" THEN Tail(user_input)
                                                 ELSE user_input, exists).loaded
                       THEN /\ workbook' = file
                            /\ structure' = _analyze_structure(file)
                       ELSE UNCHANGED <<workbook, structure>>
                    /\ UNCHANGED <<file, backups, result, events>>
                    /\ UNCHANGED cpVars
               ELSE \E done \in {process_command(CurrentSys, Val(made).user_command, parsed,
                                                 Val(made).confirmation_id,
                                                 Val(made).user_confirmed,
                                                 Env(clock, backup_ok, save_ok))} :
                        /\ ApplyDone(done)
                        /\ session' = SessionAfter(route, session, user_input, exists,
                                                   done.result)
                        /\ calls' = calls + 1
        /\ UNCHANGED clock
        /\ UNCHANGED notCLI

CLINext == CLIInput

CLIInit ==
    /\ \E wb \in {Sheet(Text("Name"), <<Text("7"), Text("8")>>)} : Loaded(wb)
    /\ CommandProcessorIdle
    /\ BackupsIdle /\ RecoveryIdle /\ LLMIdle /\ CLIIdle /\ MainIdle /\ HotIdle /\ AuditIdle
    /\ RegistryIdle /\ CheckerIdle

SpecCLI == CLIInit /\ [][CLINext]_vars

\* the step handles a line as a reply to the confirmation prompt
ConfirmationReplyStep ==
    /\ session.state = "waiting_for_confirmation"
    /\ lastOp' # lastOp
    /\ lastOp'.name = "start"
    /\ lastOp'.route = "_handle_confirmation_response"

\* C17: in the waiting-for-confirmation state a reply parsed as unclear
\* leaves the session, the pending confirmations and the workbook as they
\* were; a reply parsed as yes or no is passed to process_command with the
\* stored confirmation id, which is pending and is pending no longer
\* afterwards, and the session returns to ready with no stored id.
C17_ConfirmationReplies ==
    [][ ConfirmationReplyStep =>
          IF IsNone(parse_confirmation_response(lastOp'.user_input))
          THEN /\ session' = session
               /\ pending' = pending
               /\ execLog' = execLog
               /\ ExcelUnchanged
          ELSE /\ ~IsNone(session.pending_confirmation_id)
               /\ Val(session.pending_confirmation_id) \in DOMAIN pending
               /\ Val(lastOp'.call).confirmation_id = session.pending_confirmation_id
               /\ Val(lastOp'.call).user_confirmed
                      = parse_confirmation_response(lastOp'.user_input)
               /\ Val(session.pending_confirmation_id) \notin DOMAIN pending'
               /\ session'.state = "ready"
               /\ IsNone(session'.pending_confirmation_id) ]_vars

\* the reply "ok then" to a confirmation prompt has run the pending
\* deletion and the session is ready again
C17_Witness ==
    /\ IsCall(lastOp, "start")
    /\ lastOp.route = "_handle_confirmation_response"
    /\ lastOp.user_input = <<"ok", "then">>
    /\ session.state = "ready"
    /\ IsNone(session.pending_confirmation_id)
    /\ Len(execLog) = 1
    /\ pending = <<>>

----------------------------------------------------------------------------
(* ExcelLLMSystem (main.py) *)

\* paths a caller may name: the loaded file, another file, no file
FilePaths == {"a.xlsx", "b.xlsx", "missing.xlsx"}

\* os.path.exists(file_path)
PathExists(sys, file_path) == file_path = sys.file_path \/ file_path \in DOMAIN sys.shelf

\* the second positional argument of CommandProcessor.process_command is
\* confirmation_id: a file path given there is compared with the uuid4
\* strings of the pending confirmations, none of which it equals; 0 is the
\* number no confirmation gets
PathAsConfirmationId(file_path) == Some(0)

\* OperationResult built from the ProcessingResult
OperationResult(success, message) == [success |-> success, message |-> message]

\* ExcelLLMSystem.process_command: whether it dispatches to the Command
\* Processor, what that leaves and what is returned
ExcelLLMSystem_process_command(main, sys, command, file_path, parsed, env) ==
    IF ~main.is_initialized
    THEN [dispatched |-> FALSE,
          done |-> Done(sys, OperationResult(FALSE, "System is not properly initialized"),
                        NoSafety, <<>>)]
    ELSE IF ~PathExists(main, file_path)
    THEN [dispatched |-> FALSE,
          done |-> Done(sys, OperationResult(FALSE, "File not found"), NoSafety, <<>>)]
    ELSE LET done == process_command(sys, command, parsed, PathAsConfirmationId(file_path),
                                     NoneOpt, env)
         IN [dispatched |-> TRUE,
             done |-> [done EXCEPT !.result =
                          OperationResult(done.result.status = "success", done.result.message)]]

\* ExcelLLMSystem.process_command(command, file_path)
MainProcessCommandCall ==
    \E command \in CommandTexts, file_path \in FilePaths, parsed \in CLIParses,
       backup_ok \in BOOLEAN, save_ok \in BOOLEAN :
        /\ calls < MaxCommands
        /\ \E made \in {ExcelLLMSystem_process_command(system, CurrentSys, command, file_path,
                                                       parsed, Env(clock, backup_ok, save_ok))} :
            /\ ApplyDone(made.done)
            /\ lastOp' = [name |-> "ExcelLLMSystem.process_command", command |-> command,
                          file_path |-> file_path, dispatched |-> made.dispatched]
        /\ calls' = calls + 1
        /\ UNCHANGED <<clock, system>>
        /\ UNCHANGED notMain

\* ExcelService.load_workbook(file_path) for a file on disk, as the console
\* and the callers of the Excel Service do
LoadWorkbookCall ==
    \E file_path \in FilePaths :
        /\ file_path \in DOMAIN system.shelf
        /\ workbook' = system.shelf[file_path]
        /\ file' = system.shelf[file_path]
        /\ structure' = _analyze_structure(system.shelf[file_path])
        /\ system' = [system EXCEPT
                        !.file_path = file_path,
                        !.shelf = [q \in (DOMAIN system.shelf \ {file_path}) \cup {system.file_path}
                                     |-> IF q = system.file_path THEN file ELSE system.shelf[q]]]
        /\ lastOp' = [name |-> "load_workbook", file_path |-> file_path]
        /\ result' = NoResult
        /\ events' = <<>>
        /\ UNCHANGED <<backups, clock>>
        /\ UNCHANGED cpVars
        /\ UNCHANGED notMain

MainNext == MainProcessCommandCall \/ LoadWorkbookCall

\* the system as constructed, healthy or not, with a.xlsx loaded in the
\* Excel Service and b.xlsx on disk
MainInit ==
    /\ Loaded(Sheet(Text("Name"), <<Text("7"), Text("8")>>))
    /\ CommandProcessorIdle
    /\ BackupsIdle /\ RecoveryIdle /\ LLMIdle /\ CLIIdle /\ HotIdle /\ AuditIdle
    /\ RegistryIdle /\ CheckerIdle
    /\ \E is_initialized \in BOOLEAN :
           system = ExcelLLMSystem(is_initialized, "a.xlsx",
                                   [q \in {"b.xlsx"} |-> Sheet(Text("Name"), <<Text("9")>>)])

SpecMain == MainInit /\ [][MainNext]_vars

\* C18: when ExcelLLMSystem.process_command(command, file_path) dispatches
\* to the Command Processor and the command succeeds, the workbook the
\* Excel Service holds is the one of file_path.
C18_DispatchOnNamedWorkbook ==
    [][ ( /\ lastOp' # lastOp
          /\ lastOp'.name = "ExcelLLMSystem.process_command"
          /\ lastOp'.dispatched
          /\ result'.success )
        => system'.file_path = lastOp'.file_path ]_vars

-----------------------------------------------------------------------------
(* Hot reload: templates/hot_reload.py, template_loader.py, template_registry.py *)

\* TemplateLoader._validate_operations, for the safety level of the one
\* operation of the catalog
valid_safety_levels == {"safe", "medium", "high"}

_validate_operations(level) == level \in valid_safety_levels

\* what an editor can leave in the safety_level field of the catalog file
CatalogLevels == valid_safety_levels \cup {"dangerous"}

\* TemplateLoader.reload_operations: _last_modified is dropped, so the file
\* is read whatever its modification time; a catalog that fails validation
\* raises and leaves _operations as it was
reload_operations(operations, catalog) ==
    IF _validate_operations(catalog)
    THEN [raised |-> FALSE, operations |-> catalog]
    ELSE [raised |-> TRUE, operations |-> operations]

\* TemplateRegistry._build_registry: the metadata of the operation carries
\* the configuration the loader holds
_build_registry(operations) == Some(operations)

\* TemplateRegistry.get_operation_metadata: dict.get on the metadata table
get_operation_metadata(h) == h.metadata

\* a debounce that only looks at the order of the two times
Debounced_without_delay(current_time, last_reload) == current_time < last_reload

\* OperationConfigHandler.on_modified: the debounce test
Debounced(current_time, last_reload) == current_time - last_reload < DelayTicks

\* file-system events: a path as its stem and its extension
EventPaths == {<<"operations", ".yaml">>, <<"extra", ".yml">>, <<"notes", ".txt">>}
FileEvents == [is_directory : BOOLEAN, src_path : EventPaths]

\* str.endswith(('.yaml', '.yml'))
EndsWithYaml(src_path) == src_path[Len(src_path)] \in {".yaml", ".yml"}

\* OperationConfigHandler.on_modified up to the call of reload_callback
on_modified(h, event) ==
    IF event.is_directory \/ ~EndsWithYaml(event.src_path)
    THEN [outcome |-> "ignored", last_reload |-> h.last_reload]
    ELSE IF Debounced(h.now, h.last_reload)
    THEN [outcome |-> "debounced", last_reload |-> h.last_reload]
    ELSE [outcome |-> "reloaded", last_reload |-> h.now]

\* one step of a reload on the thread th: _default_reload_callback reloads
\* the loader ("callback"), reload_registry reloads it again
\* ("reload_registry"), clears the tables ("clear") and rebuilds them
\* ("build"); an exception ends the callback where it is raised
ReloadStepOf(h, th) ==
    CASE h.pc[th] = "callback" ->
           LET got == reload_operations(h.loaded, h.catalog)
           IN  [h EXCEPT !.loaded = got.operations,
                         !.pc[th] = IF got.raised THEN "idle" ELSE "reload_registry"]
      [] h.pc[th] = "reload_registry" ->
           LET got == reload_operations(h.loaded, h.catalog)
           IN  [h EXCEPT !.loaded = got.operations,
                         !.pc[th] = IF got.raised THEN "idle" ELSE "clear"]
      [] h.pc[th] = "clear" ->
           [h EXCEPT !.metadata = NoneOpt, !.pc[th] = "build"]
      [] h.pc[th] = "build" ->
           [h EXCEPT !.metadata = _build_registry(h.loaded), !.pc[th] = "idle"]

\* the frame of the hot-reload actions
HotFrame ==
    /\ UNCHANGED <<workbook, file, structure, backups, clock, events>>
    /\ UNCHANGED notHot

\* the catalog file is saved with another safety level for the operation
EditCatalog ==
    \E level \in CatalogLevels \ {hot.catalog} :
        /\ hot' = [hot EXCEPT !.catalog = level, !.triggered = FALSE]
        /\ lastOp' = [name |-> "edit", level |-> level]
        /\ result' = NoResult
        /\ HotFrame

\* time passes
HotTick ==
    /\ hot.now < MaxHotTicks
    /\ hot' = [hot EXCEPT !.now = hot.now + 1]
    /\ UNCHANGED <<lastOp, result>>
    /\ HotFrame

\* HotReloadManager.start_watching: a new handler on a new observer
StartWatching ==
    /\ ~hot.watching
    /\ hot.watcher < MaxWatchers
    /\ hot' = [hot EXCEPT !.watching = TRUE, !.watcher = hot.watcher + 1,
                          !.last_reload = 0]
    /\ lastOp' = [name |-> "start_watching"]
    /\ result' = NoResult
    /\ HotFrame

\* HotReloadManager.stop_watching: the observer is stopped and joined
StopWatching ==
    /\ hot.watching
    /\ hot.pc["watcher"] = "idle"
    /\ hot' = [hot EXCEPT !.watching = FALSE]
    /\ lastOp' = [name |-> "stop_watching"]
    /\ result' = NoResult
    /\ HotFrame

\* the observer thread delivers one file-system event to on_modified
WatcherEvent ==
    \E event \in FileEvents :
        /\ hot.watching
        /\ hot.pc["watcher"] = "idle"
        /\ \E seen \in {on_modified(hot, event)} :
            /\ hot' = IF seen.outcome = "reloaded"
                      THEN [hot EXCEPT !.last_reload = seen.last_reload,
                                       !.pc["watcher"] = "callback",
                                       !.triggered = TRUE,
                                       !.reloads = Append(hot.reloads,
                                                          [time |-> hot.now,
                                                           watcher |-> hot.watcher])]
                      ELSE hot
            /\ lastOp' = [name |-> "on_modified", outcome |-> seen.outcome]
        /\ result' = NoResult
        /\ HotFrame

\* HotReloadManager.manual_reload (entry "callback") or
\* ExcelLLMSystem.reload_templates (entry "reload_registry") on the thread of
\* the read loop
ManualReloadCall ==
    \E entry \in {"callback", "reload_registry"} :
        /\ hot.pc["main"] = "idle"
        /\ hot' = [hot EXCEPT !.pc["main"] = entry, !.triggered = TRUE]
        /\ lastOp' = [name |-> "manual_reload", entry |-> entry]
        /\ result' = NoResult
        /\ HotFrame

\* a reload in progress on either thread advances by one step
ReloadStep ==
    \E th \in Threads :
        /\ hot.pc[th] # "idle"
        /\ hot' = ReloadStepOf(hot, th)
        /\ UNCHANGED <<lastOp, result>>
        /\ HotFrame

\* TemplateRegistry.get_operation_metadata(category, operation) on the thread
\* of the read loop
Lookup ==
    /\ hot.pc["main"] = "idle"
    /\ lastOp' = [name |-> "get_operation_metadata", catalog |-> hot.catalog,
                  triggered |-> hot.triggered,
                  metadata |-> get_operation_metadata(hot)]
    /\ result' = NoResult
    /\ UNCHANGED hot
    /\ HotFrame

HotNext ==
    \/ EditCatalog
    \/ HotTick
    \/ StartWatching
    \/ StopWatching
    \/ WatcherEvent
    \/ ManualReloadCall
    \/ ReloadStep
    \/ Lookup

HotInit ==
    /\ Loaded(Sheet(Text("Name"), <<Text("7")>>))
    /\ CommandProcessorIdle
    /\ ServicesIdle

SpecHot == HotInit /\ [][HotNext]_vars

\* C19: once the catalog holds an allowed safety level for the operation and
\* a reload has been triggered since that edit, manually or by the watcher,
\* every lookup of the operation's metadata returns that safety level.
C19_LookupAfterReloadSeesNewLevel ==
    ( /\ lastOp.name = "get_operation_metadata"
      /\ lastOp.triggered
      /\ lastOp.catalog \in valid_safety_levels )
    => lastOp.metadata = Some(lastOp.catalog)

\* with no reload in progress on either thread, a lookup made after such
\* an edit and a reload triggered since returns the new safety level
LookupWhenQuiet ==
    [][ ( /\ lastOp' # lastOp
          /\ lastOp'.name = "get_operation_metadata"
          /\ lastOp'.triggered
          /\ lastOp'.catalog \in valid_safety_levels
          /\ \A th \in Threads : hot.pc[th] = "idle" )
        => lastOp'.metadata = Some(lastOp'.catalog) ]_vars

\* C20: any two invocations of the reload callbacks by one watcher are at
\* least one second apart, so no one-second window holds two of them.
C20_DebouncedReloads ==
    \A i, j \in DOMAIN hot.reloads :
        ( i < j /\ hot.reloads[i].watcher = hot.reloads[j].watcher )
        => hot.reloads[j].time - hot.reloads[i].time >= TicksPerSecond

\* a watcher has invoked the callbacks twice and has just dropped an event
\* that came less than a second after its last invocation
C20_Witness ==
    /\ lastOp.name = "on_modified"
    /\ lastOp.outcome = "debounced"
    /\ Debounced(hot.now, hot.last_reload)
    /\ \E i, j \in DOMAIN hot.reloads :
          i < j /\ hot.reloads[i].watcher = hot.reloads[j].watcher

-----------------------------------------------------------------------------
(* Catalog validation: templates/template_loader.py *)

\* the frame of the calls that only compute a result
ResultFrame ==
    /\ UNCHANGED <<workbook, file, structure, backups, clock, events>>
    /\ UNCHANGED cpVars
    /\ UNCHANGED auxVars

\* the system at rest, for the specifications of such calls
AtRest ==
    /\ Loaded(Sheet(Text("Name"), <<Text("7")>>))
    /\ CommandProcessorIdle
    /\ ServicesIdle

\* TemplateLoader._validate_operations: required_fields, in its order
required_fields ==
    <<"parameters", "function", "safety_level", "intent_keywords", "examples", "description">>

\* the fields whose value must be a list, in the order they are tested
list_fields == <<"parameters", "intent_keywords", "examples">>

FieldSet(fields) == {fields[i] : i \in DOMAIN fields}

\* the safety levels a catalog file may carry
SafetyLevelValues == valid_safety_levels \cup {"dangerous", "extreme"}

\* an operation's configuration: the required fields it carries (all, or
\* all but one), its safety level, and which list fields hold a list
OpConfigs ==
    [present : {FieldSet(required_fields)} \cup
               {FieldSet(required_fields) \ {f} : f \in FieldSet(required_fields)},
     safety_level : SafetyLevelValues,
     lists : SUBSET FieldSet(list_fields)]

\* what yaml.safe_load returns for the catalog file: nothing, a category
\* that is not a mapping, an operation that is not a mapping, or one
\* category with one operation
Catalogs ==
    {[kind |-> k] : k \in {"empty", "category_not_dict", "operation_not_dict"}}
    \cup {[kind |-> "operations", config |-> c] : c \in OpConfigs}

\* TemplateLoader._validate_operations on one operation: the ValueError it
\* raises, "none" if it returns; the fields are tested in the order of the
\* code: the required fields, the safety level, the list fields
ValidateOperation(op_config) ==
    IF \E i \in DOMAIN required_fields : required_fields[i] \notin op_config.present
    THEN "missing required field"
    ELSE IF ~_validate_operations(op_config.safety_level)
    THEN "invalid safety level"
    ELSE IF \E i \in DOMAIN list_fields : list_fields[i] \notin op_config.lists
    THEN "must be a list"
    ELSE "none"

\* TemplateLoader.load_operations on a file that exists and is read: the
\* exception it re-raises, or the catalog it stores
load_operations(operations_data) ==
    LET error == CASE operations_data.kind = "empty" -> "file is empty or invalid"
                   [] operations_data.kind = "category_not_dict" -> "category must be a dictionary"
                   [] operations_data.kind = "operation_not_dict" -> "operation must be a dictionary"
                   [] OTHER -> ValidateOperation(operations_data.config)
    IN  [raised |-> error # "none", error |-> error]

\* TemplateLoader.load_operations()
LoadOperationsCall ==
    \E operations_data \in Catalogs :
        \E got \in {load_operations(operations_data)} :
            /\ lastOp' = [name |-> "load_operations", operations_data |-> operations_data]
            /\ result' = [success |-> ~got.raised, message |-> got.error]
            /\ ResultFrame

LoadNext == LoadOperationsCall

SpecLoad == AtRest /\ [][LoadNext]_vars

\* a catalog whose one operation is well formed apart from its safety level
WellFormedBut(operations_data) ==
    /\ operations_data.kind = "operations"
    /\ operations_data.config.present = FieldSet(required_fields)
    /\ operations_data.config.lists = FieldSet(list_fields)

\* C21: the loader accepts an otherwise well-formed operation whose
\* safety_level is safe, medium, high or dangerous, and rejects the catalog
\* for any other safety_level.
C21_AcceptedSafetyLevels ==
    ( /\ lastOp.name = "load_operations"
      /\ WellFormedBut(lastOp.operations_data) )
    => ( result.success
         <=> lastOp.operations_data.config.safety_level
                 \in {"safe", "medium", "high", "dangerous"} )

-----------------------------------------------------------------------------
(* Command Blocker called on its own: safety/command_blocker.py *)

\* the alternatives listed for each entry of _blocked_operations
BlockedAlternatives(operation) ==
    CASE operation = "format_all" ->
           <<"specify a range", "format columns or rows", "use conditional formatting">>
      [] operation = "delete_all" ->
           <<"delete rows by number", "delete on conditions", "clear content instead">>
      [] operation = "clear_all" ->
           <<"clear ranges", "clear on conditions", "clear individual sheets">>
      [] operation = "replace_all" ->
           <<"replace within columns", "replace with conditions", "preview changes">>

\* the alternatives of the block returned by _check_dangerous_patterns
PatternAlternatives ==
    <<"specify exact cell ranges", "add conditions", "break into smaller tasks",
      "use preview mode">>

\* the elements of a sequence of <<test, text>> pairs whose test holds
Collected(pairs) ==
    LET RECURSIVE Go(_)
        Go(i) == IF i > Len(pairs) THEN <<>>
                 ELSE (IF pairs[i][1] THEN <<pairs[i][2]>> ELSE <<>>) \o Go(i + 1)
    IN  Go(1)

\* CommandBlocker._check_scope_violations: one alternative per violation
ScopeAlternatives(parameters) ==
    Collected(<< <<Has(parameters, "max_rows") /\ parameters["max_rows"] > 50,
                   "limit rows">>,
                 <<Has(parameters, "max_columns") /\ parameters["max_columns"] > 20,
                   "limit columns">>,
                 <</\ ~Has(parameters, "conditions") \/ Unlimited(parameters["conditions"])
                   /\ Has(parameters, "operation_type")
                   /\ parameters["operation_type"] \in {"delete", "update", "clear"},
                   "add conditions">> >>)

\* CommandBlocker._check_dangerous_parameters: one alternative per finding
ParameterAlternatives(parameters) ==
    Collected(<< <<Has(parameters, "range") /\ parameters["range"] = "A:Z",
                   "specify a smaller range">>,
                 <</\ Has(parameters, "operation_type") /\ Has(parameters, "target")
                   /\ parameters["operation_type"] \in {"delete", "clear", "format"}
                   /\ parameters["target"] \in {"all", "everything", "entire"},
                   "specify exact items">>,
                 <<Has(parameters, "formula") /\ HoldsDangerousString(parameters["formula"]),
                   "use simple values">> >>)

\* BlockResult.suggested_alternatives of the result of check_command
suggested_alternatives(operation, parameters, command_text) ==
    LET block == check_command(operation, parameters, command_text)
    IN  CASE block.reason = "blocked operation" -> BlockedAlternatives(operation)
          [] block.reason = "pattern" -> PatternAlternatives
          [] block.reason = "scope" -> ScopeAlternatives(parameters)
          [] block.reason = "parameters" -> ParameterAlternatives(parameters)
          [] OTHER -> <<>>

DeleteEverythingInTheSheet == <<"delete", "everything", "in", "the", "sheet">>

\* command texts handed to the Command Blocker, the empty one included
BlockerTexts ==
    SafetyTexts \cup {DeleteEverythingInTheSheet, <<"show", "entire", "sheet">>, <<>>}

\* CommandBlocker.check_command(operation, parameters, command_text)
CheckCommandCall ==
    \E request \in SafetyRequests, command_text \in BlockerTexts :
        \E block \in {check_command(request[1], request[2], command_text)} :
            /\ lastOp' = [name |-> "check_command", operation |-> request[1],
                          parameters |-> request[2], command_text |-> command_text]
            /\ result' = [success |-> TRUE, message |-> block.reason,
                          blocked |-> block.blocked,
                          suggested_alternatives |->
                              suggested_alternatives(request[1], request[2], command_text)]
            /\ ResultFrame

BlockNext == CheckCommandCall

SpecBlock == AtRest /\ [][BlockNext]_vars

\* C22: for the text "delete everything in the sheet" check_command returns
\* blocked with at least one suggested alternative, whatever the operation
\* and its parameters.
C22_DeleteEverythingBlocked ==
    ( /\ lastOp.name = "check_command"
      /\ lastOp.command_text = DeleteEverythingInTheSheet )
    => ( /\ result.blocked
         /\ result.suggested_alternatives # <<>> )

\* the text was checked with a read-only operation that no table blocks
C22_Witness ==
    /\ lastOp.name = "check_command"
    /\ lastOp.command_text = DeleteEverythingInTheSheet
    /\ lastOp.operation = "query_data"
    /\ result.blocked
    /\ result.message = "pattern"

-----------------------------------------------------------------------------
(* Safety Manager called on the read-only operations *)

read_only_operations == {"query_data", "filter_data", "aggregate_data", "sort_data"}

\* parameters a read-only command may carry: none but the sheet, empty or
\* specific conditions, conditions reading "all", a row limit, a range
ReadOnlyParameters ==
    { OnSheet,
      OnSheet @@ ("conditions" :> <<>>),
      OnSheet @@ ("conditions" :> ByName(Cond("plain", Text("7")))),
      OnSheet @@ ("conditions" :> ByName(Cond("plain", Text("all")))),
      OnSheet @@ ("max_rows" :> DefaultMaxRows + 10),
      OnSheet @@ ("range" :> "A1:A60"),
      ("sheet_name" :> "") @@ ("conditions" :> <<>>) }

ReadOnlyRequests ==
    { <<operation, parameters>> :
         operation \in read_only_operations, parameters \in ReadOnlyParameters }

\* row counts of the target sheet: at the row limit, just above it, and
\* far above the cap of the query estimate
SheetRowCounts == {safety_max_rows, safety_max_rows + 1, 5000}

\* what get_sheet_info returns for the loaded sheet and for sheets of the
\* same columns with more rows
SheetInfos(info) ==
    {Some(info)} \cup {Some([info EXCEPT !.row_count = n]) : n \in SheetRowCounts}

\* SafetyManager.evaluate_operation(operation, parameters, command_text,
\* sheet_info)
SafetyEvaluateCall ==
    \E request \in ReadOnlyRequests \cup SafetyRequests, command_text \in BlockerTexts,
       sheet_info \in {NoneOpt} \cup SheetInfos(get_sheet_info(structure)) :
        /\ lastOp = NoOp
        /\ lastSafety' = evaluate_operation(request[1], request[2], command_text, sheet_info)
        /\ lastOp' = [name |-> "evaluate_operation", operation |-> request[1],
                      parameters |-> request[2], command_text |-> command_text,
                      sheet_info |-> sheet_info]
        /\ result' = NoResult
        /\ UNCHANGED <<workbook, file, structure, backups, clock, events>>
        /\ UNCHANGED <<pending, nextId, execLog, calls>>
        /\ UNCHANGED auxVars

SafetyNext == SafetyEvaluateCall

SpecSafety == AtRest /\ [][SafetyNext]_vars

\* C23: the safety evaluation of query_data, filter_data, aggregate_data or
\* sort_data never sets confirmation_required, whatever the parameters and
\* the command text.
C23_ReadOnlyNeverConfirms ==
    ( /\ lastOp.name = "evaluate_operation"
      /\ lastOp.operation \in read_only_operations )
    => ( /\ ~lastSafety.confirmation_required
         /\ ~lastSafety.risk_assessment.confirmation_required )

\* a read-only operation was evaluated, its risk came out medium or high
\* and nothing blocked it: the case in which another operation would have
\* to be confirmed
C23_Witness ==
    /\ lastOp.name = "evaluate_operation"
    /\ lastOp.operation \in read_only_operations
    /\ lastSafety.risk_assessment.level \in {"medium", "high"}
    /\ ~lastSafety.blocked

-----------------------------------------------------------------------------
(* Confirmation replies parsed on their own: ui/confirmation_handler.py *)

MaxReplyWords == 2    \* words of the enumerated replies

\* words of a reply as str.split() yields them: a punctuation mark stays
\* attached to the word it follows
ReplyWords ==
    {"yes", "Y", "no", "sure", "sure,", "Sure,", "cancel", "please", "maybe", "do", "it"}

SureLetsDoIt == <<"sure,", "let's", "do", "it">>

ConfirmationReplies == SeqsUpTo(ReplyWords, MaxReplyWords) \cup {SureLetsDoIt}

\* ConfirmationHandler.parse_confirmation_response(user_input)
ParseConfirmationCall ==
    \E user_input \in ConfirmationReplies :
        /\ lastOp' = [name |-> "parse_confirmation_response", user_input |-> user_input]
        /\ result' = [success |-> TRUE, message |-> "parsed",
                      parsed |-> parse_confirmation_response(user_input)]
        /\ ResultFrame

ParseNext == ParseConfirmationCall

SpecParse == AtRest /\ [][ParseNext]_vars

\* a word of the reply, lower-cased, is one of the given responses
HasWordIn(user_input, responses) ==
    \E i \in 1..Len(user_input) : <<Lower(user_input[i])>> \in responses

\* C24: "yes", "Y" and "sure, let's do it" parse as affirmative, "no" and
\* "cancel please" as negative, "maybe" as unclear; a longer reply is
\* affirmative if it has a positive word and no negative one, negative in the
\* opposite case, and unclear otherwise (a reply that is itself one of the
\* listed responses is matched whole first).
C24_ConfirmationReplyParsing ==
    lastOp.name = "parse_confirmation_response" =>
        LET user_input == lastOp.user_input
            positive == HasWordIn(user_input, positive_responses)
            negative == HasWordIn(user_input, negative_responses)
        IN  /\ user_input \in {<<"yes">>, <<"Y">>, SureLetsDoIt} => result.parsed = Some(TRUE)
            /\ user_input \in {<<"no">>, <<"cancel", "please">>} => result.parsed = Some(FALSE)
            /\ user_input = <<"maybe">> => result.parsed = NoneOpt
            /\ ( /\ Len(user_input) > 1
                 /\ Normalized(user_input) \notin positive_responses \cup negative_responses ) =>
                  result.parsed = IF positive /\ ~negative THEN Some(TRUE)
                                  ELSE IF negative /\ ~positive THEN Some(FALSE)
                                  ELSE NoneOpt

-----------------------------------------------------------------------------
(* Sorting of query results: DataQueryHandler._apply_sorting *)

MaxSortRecords == 3   \* records handed to _apply_sorting

\* cell values of the sort column: None, two numbers, two strings
SortValues == {None, Num("1"), Num("2"), Text("a"), Text("b")}

\* the place of a value among the values of its own Python type
ValueRank(value) ==
    CASE value.v \in {"1", "a"} -> 1
      [] value.v \in {"2", "b"} -> 2
      [] OTHER -> 0

\* the records of a query result: the value of the column "Name" and, as the
\* rest of the record, the place it had in the data
SortRecord(value, place) == [Name |-> value, Id |-> place]

SortData(values) == [i \in 1..Len(values) |-> SortRecord(values[i], i)]

\* record.get(sort_by)
SortValueOf(record, sort_by) == Get(record, sort_by, None)

\* a key that puts the None values first
sort_key_none_first(value) ==
    IF value = None THEN <<0, None>> ELSE <<1, value>>

\* sort_key of _apply_sorting: (1, "") for None, (0, value) otherwise
sort_key(value) ==
    IF value = None THEN <<1, None>> ELSE <<0, value>>

\* the comparison of two keys raises TypeError: equal tags, and values of
\* two Python types
KeyRaises(k1, k2) == k1[1] = k2[1] /\ k1[2].t # k2[2].t

\* k1 < k2 on tuples, for keys whose comparison does not raise
KeyLess(k1, k2) ==
    \/ k1[1] < k2[1]
    \/ k1[1] = k2[1] /\ ValueRank(k1[2]) < ValueRank(k2[2])

\* sorted() compares, directly, every two keys that end up next to each
\* other, so it raises exactly when two keys of the data cannot be compared
SortRaises(data, sort_by) ==
    \E i, j \in DOMAIN data :
        KeyRaises(sort_key(SortValueOf(data[i], sort_by)),
                  sort_key(SortValueOf(data[j], sort_by)))

\* the stable insertion of a record into a sorted list: behind every record
\* it is not to come before
InsertSorted(sorted_data, record, sort_by, reverse) ==
    LET Before(other) ==
            IF reverse
            THEN KeyLess(sort_key(SortValueOf(other, sort_by)),
                         sort_key(SortValueOf(record, sort_by)))
            ELSE KeyLess(sort_key(SortValueOf(record, sort_by)),
                         sort_key(SortValueOf(other, sort_by)))
        later == {i \in DOMAIN sorted_data : Before(sorted_data[i])}
        at == IF later = {} THEN Len(sorted_data) + 1
              ELSE CHOOSE i \in later : \A j \in later : i <= j
    IN  SubSeq(sorted_data, 1, at - 1) \o <<record>> \o SubSeq(sorted_data, at, Len(sorted_data))

\* sorted(data, key=sort_key, reverse=reverse): a stable sort
RECURSIVE Sorted(_, _, _, _)
Sorted(data, n, sort_by, reverse) ==
    IF n = 0 THEN <<>>
    ELSE InsertSorted(Sorted(data, n - 1, sort_by, reverse), data[n], sort_by, reverse)

\* DataQueryHandler._apply_sorting(data, sort_by, sort_order); an exception
\* of the sort is logged and the data returned as they came
_apply_sorting(data, sort_by, sort_order) ==
    IF IsNone(sort_by) \/ data = <<>> THEN data
    ELSE IF SortRaises(data, Val(sort_by)) THEN data
    ELSE Sorted(data, Len(data), Val(sort_by), sort_order = "desc")

\* DataQueryHandler._apply_sorting on a query result; the function keeps
\* no state, so one call per behaviour covers it
ApplySortingCall ==
    \E values \in SeqsUpTo(SortValues, MaxSortRecords),
       sort_by \in {NoneOpt, Some("Name"), Some("Other")},
       sort_order \in {"asc", "desc"} :
        /\ lastOp = NoOp
        /\ lastOp' = [name |-> "_apply_sorting", data |-> SortData(values),
                      sort_by |-> sort_by, sort_order |-> sort_order]
        /\ result' = [success |-> TRUE, message |-> "sorted",
                      data |-> _apply_sorting(SortData(values), sort_by, sort_order)]
        /\ ResultFrame

SortNext == ApplySortingCall

SpecSort == AtRest /\ [][SortNext]_vars

\* an ascending sort on the column the records carry
SortedAscending ==
    /\ lastOp.name = "_apply_sorting"
    /\ lastOp.sort_by = Some("Name")
    /\ lastOp.sort_order = "asc"

\* the original relative order of records with equal sort values is kept
EqualKeysKeepOrder(data) ==
    \A i, j \in DOMAIN data :
        (i < j /\ data[i].Name = data[j].Name) => data[i].Id < data[j].Id

\* the sort values of the data are of one Python type, None aside
OneType(data) ==
    \A i, j \in DOMAIN data :
        data[i].Name = None \/ data[j].Name = None \/ data[i].Name.t = data[j].Name.t

\* C25 as stated: in a result sorted ascending every record with a None sort
\* value comes before every record with a value, and records with equal
\* keys keep their original relative order.
C25_NoneFirstStable ==
    SortedAscending =>
        /\ \A i, j \in DOMAIN result.data :
              (result.data[i].Name = None /\ result.data[j].Name # None) => i < j
        /\ EqualKeysKeepOrder(result.data)

\* C25 amended: in a result sorted ascending on a column whose values are
\* of one type, every record with a None sort value comes after every
\* record with a value, the values ascend, and records with equal keys keep
\* their original relative order; a column of mixed types is returned in
\* its original order.
C25_NoneLastStable ==
    SortedAscending =>
        IF OneType(lastOp.data)
        THEN /\ \A i, j \in DOMAIN result.data :
                   (result.data[i].Name # None /\ result.data[j].Name = None) => i < j
             /\ \A i, j \in DOMAIN result.data :
                   ( /\ i < j
                     /\ result.data[i].Name # None
                     /\ result.data[j].Name # None )
                   => ValueRank(result.data[i].Name) <= ValueRank(result.data[j].Name)
             /\ EqualKeysKeepOrder(result.data)
             /\ {result.data[i] : i \in DOMAIN result.data}
                    = {lastOp.data[i] : i \in DOMAIN lastOp.data}
             /\ Len(result.data) = Len(lastOp.data)
        ELSE result.data = lastOp.data

\* an ascending sort moved a None value from the front behind a value and
\* kept two equal values in their order
C25_Witness ==
    /\ SortedAscending
    /\ Len(lastOp.data) = 3
    /\ lastOp.data[1].Name = None
    /\ lastOp.data[2].Name = lastOp.data[3].Name
    /\ lastOp.data[2].Name # None
    /\ result.data[3].Name = None
    /\ result.data[1].Id = 2

----------------------------------------------------------------------------
(* The fields of the ProcessingResult the Command Processor returns *)

ReturnsProcessingResult ==
    IsCall(lastOp, "process_command") \/ IsCall(lastOp, "process_command_with_fields")

Present(field) == ~IsNone(field)

\* C26: in every ProcessingResult the Command Processor returns, data is
\* present only with status success, confirmation_prompt only with status
\* confirmation_required and clarification_questions only with status
\* clarification_needed, so that at most one of the three is present
C26_FieldsFollowStatus ==
    ReturnsProcessingResult =>
        /\ Present(result.data) => result.status = "success"
        /\ Present(result.confirmation_prompt) => result.status = "confirmation_required"
        /\ Present(result.clarification_questions) => result.status = "clarification_needed"
        /\ Present(result.data) =>
               IsNone(result.confirmation_prompt) /\ IsNone(result.clarification_questions)
        /\ Present(result.confirmation_prompt) =>
               IsNone(result.data) /\ IsNone(result.clarification_questions)
        /\ Present(result.clarification_questions) =>
               IsNone(result.data) /\ IsNone(result.confirmation_prompt)

\* a confirmation request was returned, with its prompt and nothing else
C26_Witness ==
    /\ ReturnsProcessingResult
    /\ result.status = "confirmation_required"
    /\ Present(result.confirmation_prompt)
    /\ IsNone(result.data)
    /\ IsNone(result.clarification_questions)

\* a command was executed and its data returned
C26_SuccessWithData ==
    ReturnsProcessingResult /\ result.status = "success" /\ Present(result.data)

\* a clarification was asked for
C26_ClarificationAsked ==
    ReturnsProcessingResult /\ Present(result.clarification_questions)

\* C29: process_command returns status success only when the operation it
\* executed reported success; a dictionary with success = False yields
\* status failed
C29_SuccessOnlyWhenOperationSucceeded ==
    IsCall(lastOp, "process_command") =>
        /\ result.status = "success" =>
               Present(result.execution_details) /\ Val(result.execution_details).success
        /\ (Present(result.execution_details) /\ ~Val(result.execution_details).success) =>
               result.status = "failed"

\* C30: a process_command call carrying a confirmation id that is not
\* pending executes no operation and returns status failed
C30_UnknownConfirmationFails ==
    [][(/\ IsCall(lastOp', "process_command")
        /\ calls' = calls + 1
        /\ Present(lastOp'.confirmation_id)
        /\ Val(lastOp'.confirmation_id) \notin DOMAIN pending)
       => (result'.status = "failed" /\ execLog' = execLog)]_vars

----------------------------------------------------------------------------
(* Operation Router.  A routing returns the RoutingResult and the        *)
(* execution paths it entered, in order: the Template Registry, the      *)
(* direct handler table.                                                  *)

RoutingStrategies == {"template_registry", "direct_handler", "hybrid"}

RoutingResult(success, handler_used, warnings) ==
    [success |-> success, handler_used |-> handler_used, warnings |-> warnings]

Routed(routing_result, tried) == [result |-> routing_result, tried |-> tried]

FallbackWarning == "Operation executed via direct handler (template registry unavailable)"

\* OperationRouter._build_routing_rules: category, operation and the
\* handler_used its routing function reports
_routing_rules ==
    { <<"data_operations", "create_data", "data_insertion_handler">>,
      <<"data_operations", "insert_row", "data_insertion_handler">>,
      <<"data_operations", "insert_column", "data_insertion_handler">>,
      <<"data_operations", "query_data", "data_query_handler">>,
      <<"data_operations", "find_records", "data_query_handler">>,
      <<"data_operations", "get_summary", "data_query_handler">>,
      <<"data_operations", "update_data", "data_update_handler">>,
      <<"data_operations", "delete_data", "data_deletion_handler">>,
      <<"visualization_operations", "create_chart", "visualization_operations">>,
      <<"visualization_operations", "generate_plot", "visualization_operations">>,
      <<"visualization_operations", "visualize_data", "visualization_operations">>,
      <<"chart_operations", "shift_axis", "chart_operations">>,
      <<"chart_operations", "transform_values", "chart_operations">>,
      <<"chart_operations", "resize_chart", "chart_operations">>,
      <<"chart_operations", "move_chart", "chart_operations">> }

\* intent in self._routing_rules and operation in self._routing_rules[intent]
HasRoutingRule(intent, operation) ==
    \E rule \in _routing_rules : rule[1] = intent /\ rule[2] = operation

\* the routing functions _route_data_creation, _route_data_query,
\* _route_data_update, _route_data_deletion, _route_chart_creation and
\* _route_chart_manipulation: update and deletion are placeholders that
\* report failure, the others report what their handler reports
router_func(llm_response, handler_ok) ==
    LET rule == CHOOSE rule \in _routing_rules :
                    rule[1] = llm_response.intent /\ rule[2] = llm_response.operation
    IN Routed(RoutingResult(/\ rule[3] \notin {"data_update_handler", "data_deletion_handler"}
                            /\ handler_ok,
                            rule[3], <<>>),
              <<"direct_handler">>)

\* OperationRouter._route_via_template_registry
_route_via_template_registry(llm_response, registry_ok) ==
    Routed(RoutingResult(/\ is_operation_available(llm_response.intent, llm_response.operation)
                         /\ registry_ok,
                         "template_registry", <<>>),
           <<"template_registry">>)

\* OperationRouter._route_via_direct_handler
_route_via_direct_handler(llm_response, handler_ok) ==
    IF HasRoutingRule(llm_response.intent, llm_response.operation)
    THEN router_func(llm_response, handler_ok)
    ELSE Routed(RoutingResult(FALSE, "direct_handler", <<>>), <<"direct_handler">>)

\* OperationRouter._route_via_hybrid_approach
_route_via_hybrid_approach(llm_response, registry_ok, handler_ok) ==
    LET template_result == _route_via_template_registry(llm_response, registry_ok)
        direct_result == _route_via_direct_handler(llm_response, handler_ok)
        tried == template_result.tried \o direct_result.tried
    IN IF template_result.result.success THEN template_result
       ELSE IF direct_result.result.success
       THEN Routed([direct_result.result EXCEPT !.warnings = Append(@, FallbackWarning)], tried)
       ELSE Routed(RoutingResult(FALSE, "hybrid", <<"template error", "direct error">>), tried)

\* OperationRouter._strategy_based_routing
_strategy_based_routing(routing_strategy, llm_response, registry_ok, handler_ok) ==
    CASE routing_strategy = "template_registry" ->
            _route_via_template_registry(llm_response, registry_ok)
      [] routing_strategy = "direct_handler" ->
            _route_via_direct_handler(llm_response, handler_ok)
      [] OTHER -> _route_via_hybrid_approach(llm_response, registry_ok, handler_ok)

\* OperationRouter.route_operation: a specific routing rule comes first,
\* the strategy is the fallback
route_operation(routing_strategy, llm_response, registry_ok, handler_ok) ==
    IF HasRoutingRule(llm_response.intent, llm_response.operation)
    THEN router_func(llm_response, handler_ok)
    ELSE _strategy_based_routing(routing_strategy, llm_response, registry_ok, handler_ok)

\* operations with a routing rule and a registry entry, with a routing
\* rule only, with a registry entry only, and with neither
RoutedCommands ==
    { LLMResponse(key[1], key[2], OnSheet, "low") :
        key \in { <<"data_operations", "query_data">>,
                  <<"visualization_operations", "create_chart">>,
                  <<"data_operations", "insert_row">>,
                  <<"data_operations", "update_data">>,
                  <<"chart_operations", "shift_axis">>,
                  <<"data_operations", "delete_rows">>,
                  <<"data_operations", "update_cells">>,
                  <<"data_operations", "merge_sheets">>,
                  <<"chart_operations", "rotate_chart">> } }

RouteOperationCall ==
    \E routing_strategy \in RoutingStrategies, llm_response \in RoutedCommands,
       registry_ok \in BOOLEAN, handler_ok \in BOOLEAN :
        \E routed \in {route_operation(routing_strategy, llm_response, registry_ok, handler_ok)} :
            /\ lastOp' = [name |-> "route_operation", routing_strategy |-> routing_strategy,
                          llm_response |-> llm_response, registry_ok |-> registry_ok,
                          handler_ok |-> handler_ok, tried |-> routed.tried]
            /\ result' = routed.result
            /\ ResultFrame

RouteNext == RouteOperationCall

SpecRoute == AtRest /\ [][RouteNext]_vars

InSeq(x, seq) == \E i \in DOMAIN seq : seq[i] = x

\* C28: the strategy determines the execution path: with the
\* template_registry strategy only the Template Registry is tried, with
\* the direct_handler strategy only the direct handler table, and with the
\* hybrid strategy the direct table only after the registry attempt, and
\* a result the direct table then produced carries the fallback warning
C28_StrategyDeterminesPath ==
    IsCall(lastOp, "route_operation") =>
        /\ lastOp.routing_strategy = "template_registry" =>
               lastOp.tried = <<"template_registry">>
        /\ lastOp.routing_strategy = "direct_handler" =>
               lastOp.tried = <<"direct_handler">>
        /\ lastOp.routing_strategy = "hybrid" =>
               \/ lastOp.tried = <<"template_registry">> /\ result.success
               \/ /\ lastOp.tried = <<"template_registry", "direct_handler">>
                  /\ result.success => InSeq(FallbackWarning, result.warnings)

\* the same for the operations that have no routing rule of their own
C28_WithoutRoutingRule ==
    (/\ IsCall(lastOp, "route_operation")
     /\ ~HasRoutingRule(lastOp.llm_response.intent, lastOp.llm_response.operation))
    => C28_StrategyDeterminesPath

----------------------------------------------------------------------------
(* Audit Logger: log_audit_event called from several threads.  An event  *)
(* id evt_<session>_<counter, six digits> is written as its counter: the *)
(* session is fixed and the padding keeps different counters apart.      *)

AuditFrame ==
    /\ UNCHANGED <<workbook, file, structure, backups, clock, events>>
    /\ UNCHANGED cpVars
    /\ UNCHANGED <<bakVars, brkVars, recVars, llm, session, system, hot, registry, checker>>

\* threading.Lock.acquire that does not wait for the holder
acquire_without_waiting(lock) == TRUE

\* threading.Lock.acquire returns once nobody holds the lock
acquire(lock) == IsNone(lock)

\* a thread calls log_audit_event
LogAuditEventCall(th) ==
    /\ audit.pc[th] = "idle"
    /\ audit.calls < MaxAuditCalls
    /\ audit' = [audit EXCEPT !.pc[th] = "generate", !.calls = @ + 1]
    /\ UNCHANGED <<lastOp, result>>
    /\ AuditFrame

\* _generate_event_id: with self._lock
GenerateAcquire(th) ==
    /\ audit.pc[th] = "generate"
    /\ acquire(audit._lock)
    /\ audit' = [audit EXCEPT !._lock = Some(th), !.pc[th] = "load"]
    /\ UNCHANGED <<lastOp, result>>
    /\ AuditFrame

\* self._event_counter += 1: the counter is read ...
GenerateLoad(th) ==
    /\ audit.pc[th] = "load"
    /\ audit' = [audit EXCEPT !.loaded[th] = audit._event_counter, !.pc[th] = "store"]
    /\ UNCHANGED <<lastOp, result>>
    /\ AuditFrame

\* ... and written back, one larger
GenerateStore(th) ==
    /\ audit.pc[th] = "store"
    /\ audit' = [audit EXCEPT !._event_counter = audit.loaded[th] + 1, !.pc[th] = "format"]
    /\ UNCHANGED <<lastOp, result>>
    /\ AuditFrame

\* return f"evt_{self.session_id}_{self._event_counter:06d}", leaving
\* the with block
GenerateReturn(th) ==
    /\ audit.pc[th] = "format"
    /\ audit' = [audit EXCEPT !.event_id[th] = audit._event_counter,
                              !.minted = Append(@, audit._event_counter),
                              !._lock = NoneOpt,
                              !.pc[th] = "append"]
    /\ UNCHANGED <<lastOp, result>>
    /\ AuditFrame

\* log_audit_event: with self._lock, for the buffer
AppendAcquire(th) ==
    /\ audit.pc[th] = "append"
    /\ acquire(audit._lock)
    /\ audit' = [audit EXCEPT !._lock = Some(th), !.pc[th] = "appending"]
    /\ UNCHANGED <<lastOp, result>>
    /\ AuditFrame

\* self.audit_events[-self.max_events_in_memory:]
LastEvents(audit_events) ==
    IF Len(audit_events) > max_events_in_memory
    THEN SubSeq(audit_events, Len(audit_events) - max_events_in_memory + 1, Len(audit_events))
    ELSE audit_events

\* the event is appended and the buffer cut to its size, leaving the
\* with block
AppendEvent(th) ==
    /\ audit.pc[th] = "appending"
    /\ audit' = [audit EXCEPT !.audit_events = LastEvents(Append(@, audit.event_id[th])),
                              !._lock = NoneOpt,
                              !.pc[th] = "write"]
    /\ UNCHANGED <<lastOp, result>>
    /\ AuditFrame

\* self.audit_logger.info(event.to_json()); return event_id
LogAuditEventReturn(th) ==
    /\ audit.pc[th] = "write"
    /\ audit' = [audit EXCEPT !.file = Append(@, audit.event_id[th]), !.pc[th] = "idle"]
    /\ lastOp' = [name |-> "log_audit_event", thread |-> th]
    /\ result' = [success |-> TRUE, event_id |-> audit.event_id[th]]
    /\ AuditFrame

AuditNext ==
    \E th \in AuditThreads :
        \/ LogAuditEventCall(th)
        \/ GenerateAcquire(th)
        \/ GenerateLoad(th)
        \/ GenerateStore(th)
        \/ GenerateReturn(th)
        \/ AppendAcquire(th)
        \/ AppendEvent(th)
        \/ LogAuditEventReturn(th)

SpecAudit == AtRest /\ [][AuditNext]_vars

\* C27: under any interleaving of concurrent log_audit_event calls every
\* event receives a distinct event id, and the counter in the ids
\* increases strictly from one minted id to the next
C27_DistinctIncreasingEventIds ==
    /\ \A i, j \in DOMAIN audit.minted :
           i < j => audit.minted[i] < audit.minted[j]
    /\ \A i, j \in DOMAIN audit.audit_events :
           i # j => audit.audit_events[i] # audit.audit_events[j]
    /\ \A th, other \in AuditThreads :
           (/\ th # other
            /\ audit.pc[th] \in {"append", "appending", "write"}
            /\ audit.pc[other] \in {"append", "appending", "write"})
           => audit.event_id[th] # audit.event_id[other]

\* two threads were inside log_audit_event at once and both have their id
C27_Witness ==
    /\ Len(audit.minted) >= 2
    /\ \E th, other \in AuditThreads :
           /\ th # other
           /\ audit.pc[th] \in {"append", "appending", "write"}
           /\ audit.pc[other] \in {"append", "appending", "write"}

----------------------------------------------------------------------------
(* A dialogue with the Command Processor: commands that ask for         *)
(* confirmation or run at once, and replies to the ids handed out, to   *)
(* pending and to spent ones alike.                                     *)

DialogueCommands ==
    { LLMResponse("data_operations", "delete_rows",
                  OnSheet @@ ("conditions" :> ByName(Cond("plain", Text("7")))), "high"),
      LLMResponse("data_operations", "query_data", OnSheet, "low") }

DialogueCommandCall ==
    \E parsed \in {Some(r) : r \in DialogueCommands}, save_ok \in BOOLEAN :
        /\ calls < MaxTurns
        /\ \E done \in {process_command(CurrentSys, <<"show", "sales", "data">>, parsed,
                                        NoneOpt, NoneOpt, Env(clock, TRUE, save_ok))} :
               ApplyDone(done)
        /\ lastOp' = [name |-> "process_command", user_command |-> <<"show", "sales", "data">>,
                      parsed |-> parsed, confirmation_id |-> NoneOpt,
                      user_confirmed |-> NoneOpt]
        /\ calls' = calls + 1
        /\ UNCHANGED clock
        /\ UNCHANGED auxVars

DialogueReplyCall ==
    \E confirmation_id \in 1..nextId, user_confirmed \in Answers,
       parsed \in {NoneOpt} \cup {Some(r) : r \in DialogueCommands}, save_ok \in BOOLEAN :
        /\ calls < MaxTurns
        /\ \E done \in {process_command(CurrentSys, <<"yes">>, parsed, Some(confirmation_id),
                                        user_confirmed, Env(clock, TRUE, save_ok))} :
               ApplyDone(done)
        /\ lastOp' = [name |-> "process_command", user_command |-> <<"yes">>,
                      parsed |-> parsed, confirmation_id |-> Some(confirmation_id),
                      user_confirmed |-> user_confirmed]
        /\ calls' = calls + 1
        /\ UNCHANGED clock
        /\ UNCHANGED auxVars

DialogueNext ==
    \/ DialogueCommandCall
    \/ DialogueReplyCall

DialogueInit ==
    /\ Loaded(Sheet(Text("Name"), <<Text("7"), Num("7"), Text("7")>>))
    /\ CommandProcessorIdle
    /\ ServicesIdle

SpecDialogue == DialogueInit /\ [][DialogueNext]_vars

\* the call executed an operation that had asked for confirmation
ExecutesStored ==
    /\ Len(execLog') > Len(execLog)
    /\ execLog'[Len(execLog')].safety_result.confirmation_required

\* C31: each pending confirmation leads to at most one execution of its
\* operation: the first reply to a confirmation id, whatever the answer,
\* removes the pending record and executes at most the one stored
\* operation; a spent id never becomes pending again; and a stored
\* operation is executed only by a reply to an id that is pending
C31_AtMostOneExecution ==
    [][ /\ RepliesTo(lastOp', pending) /\ calls' = calls + 1
            => /\ Val(lastOp'.confirmation_id) \notin DOMAIN pending'
               /\ Len(execLog') <= Len(execLog) + 1
               /\ Len(execLog') > Len(execLog)
                      => execLog'[Len(execLog')].llm_response
                             = pending[Val(lastOp'.confirmation_id)].llm_response
        /\ \A id \in 1..nextId : id \notin DOMAIN pending => id \notin DOMAIN pending'
        /\ ExecutesStored => RepliesTo(lastOp', pending) ]_vars

\* a confirmation was answered with yes and executed, and a second yes to
\* the same id has executed nothing more
C31_Witness ==
    /\ IsCall(lastOp, "process_command")
    /\ lastOp.confirmation_id = Some(1)
    /\ lastOp.user_confirmed = Some(TRUE)
    /\ nextId = 1
    /\ pending = <<>>
    /\ Len(execLog) = 1
    /\ execLog[1].safety_result.confirmation_required
    /\ result.status = "failed"

----------------------------------------------------------------------------
(* The console session between two input lines *)

\* C32: between any two input lines of a console session the state is
\* waiting_for_confirmation exactly when a pending confirmation id is
\* stored in the session, and that id refers to a record still pending in
\* the Command Processor
C32_WaitingIffIdStored ==
    /\ session.state = "waiting_for_confirmation" <=> Present(session.pending_confirmation_id)
    /\ Present(session.pending_confirmation_id)
           => Val(session.pending_confirmation_id) \in DOMAIN pending

\* the same, as long as no file has been loaded or opened while a
\* confirmation was awaited
C32_WaitingImpliesIdPending ==
    session.state = "waiting_for_confirmation"
        => /\ Present(session.pending_confirmation_id)
           /\ Val(session.pending_confirmation_id) \in DOMAIN pending

\* the step handles a line as a reply to clarification questions and
\* resubmits the joined command
ClarificationReplyStep ==
    /\ session.state = "waiting_for_clarification"
    /\ lastOp' # lastOp
    /\ lastOp'.name = "start"
    /\ lastOp'.route = "_handle_clarification_response"
    /\ Present(lastOp'.call)

\* C33: when the command resubmitted after a clarification reply yields
\* confirmation_required, the session moves to waiting_for_confirmation
\* with the new confirmation id stored; when it yields
\* clarification_needed, the session moves to waiting_for_clarification
\* with a clarification context stored
C33_FollowUpTurnKept ==
    [][ ClarificationReplyStep =>
          /\ result'.status = "confirmation_required"
                 => /\ session'.state = "waiting_for_confirmation"
                    /\ session'.pending_confirmation_id = result'.confirmation_id
          /\ result'.status = "clarification_needed"
                 => /\ session'.state = "waiting_for_clarification"
                    /\ Present(session'.clarification_context) ]_vars

\* every reply to clarification questions leaves the session ready, with
\* no clarification context and the stored confirmation id as it was
C33_ReplyAlwaysReady ==
    [][ ClarificationReplyStep =>
          /\ session'.state = "ready"
          /\ IsNone(session'.clarification_context)
          /\ session'.pending_confirmation_id = session.pending_confirmation_id ]_vars

----------------------------------------------------------------------------
(* ExcelLLMSystem.start_interactive_session and the console it starts *)

\* the content of an existing file, as ExcelService.load_workbook reads it
FileContent(main, file_path) ==
    IF file_path = main.file_path THEN file ELSE main.shelf[file_path]

\* ExcelLLMSystem.start_interactive_session(file_path): an existing file
\* is loaded into the Excel Service, then CLIInterface.start() runs; the
\* session of the console is the one CLIInterface.__init__ built
StartInteractiveSessionCall ==
    \E file_path \in {NoneOpt} \cup {Some(q) : q \in FilePaths} :
        /\ lastOp = NoOp
        /\ \E preloaded \in {/\ system.is_initialized
                              /\ Present(file_path)
                              /\ PathExists(system, Val(file_path))} :
            /\ IF preloaded
               THEN /\ workbook' = FileContent(system, Val(file_path))
                    /\ file' = FileContent(system, Val(file_path))
                    /\ structure' = _analyze_structure(FileContent(system, Val(file_path)))
                    /\ system' = [system EXCEPT
                          !.file_path = Val(file_path),
                          !.shelf = [q \in (DOMAIN system.shelf \ {Val(file_path)})
                                              \cup ({system.file_path} \ {Val(file_path)})
                                       |-> IF q = system.file_path THEN file
                                           ELSE system.shelf[q]]]
               ELSE UNCHANGED <<workbook, file, structure, system>>
            /\ lastOp' = [name |-> "start_interactive_session", file_path |-> file_path,
                          started |-> system.is_initialized, preloaded |-> preloaded]
        /\ result' = NoResult
        /\ events' = <<>>
        /\ UNCHANGED <<backups, clock>>
        /\ UNCHANGED cpVars
        /\ UNCHANGED notMain

\* a line entered at the console that start_interactive_session started
SessionInput ==
    /\ \/ IsCall(lastOp, "start_interactive_session") /\ lastOp.started
       \/ IsCall(lastOp, "start")
    /\ CLIInput

SessionNext == StartInteractiveSessionCall \/ SessionInput

SpecSession == MainInit /\ [][SessionNext]_vars

\* the line is a natural-language line entered in the ready state
ReadyLine(op) ==
    IsCall(op, "start") /\ op.route \in {"_execute_command", "no_file"}

\* C34: after start_interactive_session(file_path) has pre-loaded an
\* existing file, the first natural-language line entered in the ready
\* state is dispatched to the Command Processor, not refused for lack of a
\* loaded file
C34_PreloadedFileCounts ==
    [][ (/\ IsCall(lastOp, "start_interactive_session")
         /\ lastOp.preloaded
         /\ ReadyLine(lastOp'))
        => (lastOp'.route = "_execute_command" /\ Present(lastOp'.call)) ]_vars

\* a natural-language line is dispatched only after a load or open line
\* has set the session's current file
C34_DispatchNeedsLoadLine ==
    [][ (ReadyLine(lastOp') /\ lastOp'.route = "_execute_command")
        => Present(session.current_file) ]_vars

----------------------------------------------------------------------------
(* Failed mutating operations and the workbook in memory *)

MutatingOperations ==
    {"delete_data", "delete_rows", "update_cells", "update_cell", "insert_row", "create_chart"}

\* the step is a call of a mutating operation that returned failure
FailedMutation ==
    /\ lastOp' # lastOp
    /\ lastOp'.name \in MutatingOperations
    /\ ~result'.success

\* C35: a mutating operation that returns failure leaves the workbook in
\* memory equal to its state before the operation
C35_FailureLeavesWorkbook ==
    [][ FailedMutation => workbook' = workbook ]_vars

\* a mutating operation that returns failure without having attempted a
\* save leaves the workbook in memory as it was
C35_FailureBeforeSaveLeavesWorkbook ==
    [][ (FailedMutation /\ ~InSeq("save", events') /\ ~InSeq("save_failed", events'))
        => workbook' = workbook ]_vars

----------------------------------------------------------------------------
(* Template Registry: lookups on one thread while reload_registry runs on
   the watcher thread.  Neither takes a lock; every step below is one
   dictionary operation, which the interpreter makes atomic. *)

RegistryFrame ==
    /\ UNCHANGED <<workbook, file, structure, backups, clock, events>>
    /\ UNCHANGED cpVars
    /\ UNCHANGED <<bakVars, brkVars, recVars, llm, session, system, hot, audit, checker>>

RegistryKeys == UNION {Range(catalog) : catalog \in CatalogVersions}

\* the operations catalog file is edited
SaveCatalog ==
    /\ registry.reloads < MaxReloads
    /\ \E catalog \in CatalogVersions \ {registry.catalog} :
           registry' = [registry EXCEPT !.catalog = catalog]
    /\ UNCHANGED <<lastOp, result>>
    /\ RegistryFrame

\* reload_registry, first statement: template_loader.reload_operations()
ReloadOperations ==
    /\ registry.pc = "idle"
    /\ registry.reloads < MaxReloads
    /\ registry' = [registry EXCEPT !.operations = registry.catalog,
                                    !.before = registry._function_registry,
                                    !.reloads = @ + 1,
                                    !.pc = "clear_functions"]
    /\ UNCHANGED <<lastOp, result>>
    /\ RegistryFrame

\* self._function_registry.clear()
ClearFunctions ==
    /\ registry.pc = "clear_functions"
    /\ registry' = [registry EXCEPT !._function_registry = {},
                                    !.pc = "clear_metadata"]
    /\ UNCHANGED <<lastOp, result>>
    /\ RegistryFrame

\* self._operation_metadata.clear(), and _build_registry reads the
\* operations it will register
ClearMetadata ==
    /\ registry.pc = "clear_metadata"
    /\ registry' = [registry EXCEPT !._operation_metadata = {},
                                    !.todo = registry.operations,
                                    !.pc = "register"]
    /\ UNCHANGED <<lastOp, result>>
    /\ RegistryFrame

\* _build_registry: self._function_registry[registry_key] = function
RegisterFunction ==
    /\ registry.pc = "register"
    /\ registry.todo # <<>>
    /\ registry' = [registry EXCEPT !._function_registry = @ \cup {Head(registry.todo)},
                                    !.pc = "metadata"]
    /\ UNCHANGED <<lastOp, result>>
    /\ RegistryFrame

\* _build_registry: self._operation_metadata[registry_key] = {...}; after
\* the last key reload_registry returns
StoreMetadata ==
    /\ registry.pc = "metadata"
    /\ \E rest \in {Tail(registry.todo)} :
           registry' = [registry EXCEPT
               !._operation_metadata = @ \cup {Head(registry.todo)},
               !.todo = rest,
               !.pc = IF rest = <<>> THEN "idle" ELSE "register",
               !.before = IF rest = <<>> THEN registry._function_registry ELSE @]
    /\ UNCHANGED <<lastOp, result>>
    /\ RegistryFrame

\* what a lookup records: the keys it asked for, the keys it found, the
\* statement the reloading thread was at, and the keys in both the
\* catalog registered before the reload and the catalog being registered
RegistryLookup(name, asked, found) ==
    /\ lastOp' = [name |-> name, asked |-> asked, found |-> found,
                  pc |-> registry.pc,
                  common |-> registry.before \cap Range(registry.operations)]
    /\ result' = [success |-> asked \subseteq found, message |-> name]
    /\ UNCHANGED registry
    /\ RegistryFrame

\* is_operation_available(category, operation): _operation_metadata.get
IsOperationAvailableCall(key) ==
    RegistryLookup("is_operation_available", {key},
                   {key} \cap registry._operation_metadata)

\* get_all_operations(): list(self._function_registry.keys())
GetAllOperationsCall ==
    RegistryLookup("get_all_operations", RegistryKeys, registry._function_registry)

\* execute_operation(category, operation): get_function, KeyError if None
ExecuteOperationCall(key) ==
    RegistryLookup("execute_operation", {key},
                   {key} \cap registry._function_registry)

RegistryNext ==
    \/ SaveCatalog
    \/ ReloadOperations
    \/ ClearFunctions
    \/ ClearMetadata
    \/ RegisterFunction
    \/ StoreMetadata
    \/ \E key \in RegistryKeys : IsOperationAvailableCall(key)
    \/ GetAllOperationsCall
    \/ \E key \in RegistryKeys : ExecuteOperationCall(key)

SpecRegistry == AtRest /\ [][RegistryNext]_vars

IsRegistryLookup(op) ==
    op.name \in {"is_operation_available", "get_all_operations", "execute_operation"}

\* C36: a lookup or dispatch on the Template Registry that runs while
\* reload_registry runs on the watcher thread finds every operation it
\* asks for that is in both the old and the new catalog; it never observes
\* an empty or partly rebuilt registry
C36_LookupFindsCommonOperations ==
    IsRegistryLookup(lastOp) =>
        (lastOp.asked \cap lastOp.common) \subseteq lastOp.found

\* a lookup made while no reload is in progress finds every operation of
\* the catalog the registry was built from
C36_LookupAtRestFindsOperations ==
    (IsRegistryLookup(lastOp) /\ lastOp.pc = "idle") =>
        (lastOp.asked \cap lastOp.common) \subseteq lastOp.found

----------------------------------------------------------------------------
(* Read-only operations on sheets of any size *)

\* the command text holds none of the keywords and patterns that mark a
\* mass operation
NoMassKeyword(command_text) ==
    /\ ~_contains_dangerous_keywords(command_text)
    /\ ~_check_dangerous_patterns(command_text)

\* a filter, sort or aggregation with valid parameters and a command text
\* without mass-operation keyword was evaluated
PlainReadOnlyEvaluated ==
    /\ lastOp.name = "evaluate_operation"
    /\ lastOp.operation \in {"filter_data", "sort_data", "aggregate_data"}
    /\ lastSafety.validation_result.valid
    /\ NoMassKeyword(lastOp.command_text)

\* C37: a read-only operation (filter_data, sort_data or aggregate_data)
\* with valid parameters and a command text without mass-operation keyword
\* is not blocked by the safety evaluation, whatever the number of rows of
\* the target sheet
C37_ReadOnlyNotBlockedBySheetSize ==
    PlainReadOnlyEvaluated => ~lastSafety.blocked

\* such an operation is not blocked when the sheet is unknown or has at
\* most max_rows rows
C37_ReadOnlyNotBlockedOnSmallSheet ==
    ( /\ PlainReadOnlyEvaluated
      /\ \A info \in lastOp.sheet_info : info.row_count <= safety_max_rows )
    => ~lastSafety.blocked

----------------------------------------------------------------------------
(* Backups made at any pace *)

\* the step is a create_backup call that returned a path
BackupReturnedPath ==
    /\ backupLog'.made = backupLog.made + 1
    /\ lastOp'.name = "create_backup"
    /\ Present(result'.path)

\* C38: every create_backup call that returns a path has created a backup
\* file distinct from all backups that existed before the call; no earlier
\* backup is overwritten, whatever the time between successive calls
C38_BackupIsNewFile ==
    [][ BackupReturnedPath =>
           \A path \in result'.path : path \notin DOMAIN backups ]_vars

\* a call made in a later second than every earlier call creates a new
\* backup file
C38_LaterSecondIsNewFile ==
    [][ (BackupReturnedPath /\ \A t \in backupLog.stamps : t < clock) =>
           \A path \in result'.path : path \notin DOMAIN backups ]_vars

----------------------------------------------------------------------------
(* PeriodicReloadChecker: start() and stop() on the calling thread, and
   _check_and_reload on the thread of each Timer that fires.  Nothing is
   locked; every step below is one statement.  A Timer is "new" until it is
   started, "pending" until it fires or is cancelled, and its thread then
   goes through "check", "reload", "finally", "schedule", "start". *)

CheckerFrame ==
    /\ UNCHANGED <<workbook, file, structure, backups, clock, lastOp, result, events>>
    /\ UNCHANGED cpVars
    /\ UNCHANGED <<bakVars, brkVars, recVars, llm, session, system, hot, audit, registry>>

\* self._timer = threading.Timer(self.check_interval, self._check_and_reload)
NewTimer(c) ==
    [c EXCEPT !.timers = Append(@, "new"), !._timer = Some(Len(c.timers) + 1)]

\* self._timer.start(): self._timer is read again; None has no start, and
\* a Timer that was started once raises RuntimeError.  A Timer cancelled
\* before its start runs nothing.
CanStartTimer(c) ==
    /\ Present(c._timer)
    /\ c.timers[Val(c._timer)] = "new"

StartTimer(c) ==
    IF CanStartTimer(c) THEN [c EXCEPT !.timers[Val(c._timer)] = "pending"] ELSE c

\* Timer.cancel(): a Timer that has not fired will not fire
CancelTimer(c) ==
    IF Present(c._timer) /\ c.timers[Val(c._timer)] \in {"new", "pending"}
    THEN [c EXCEPT !.timers[Val(c._timer)] = "cancelled"]
    ELSE c

\* start(): the test of _is_running
StartTest ==
    /\ checker.pc = "idle"
    /\ checker.calls < MaxCheckerCalls
    /\ checker' = IF checker._is_running
                  THEN [checker EXCEPT !.calls = @ + 1, !.last = "start"]
                  ELSE [checker EXCEPT !.calls = @ + 1, !.pc = "start_set"]
    /\ CheckerFrame

\* self._is_running = True
StartSet ==
    /\ checker.pc = "start_set"
    /\ checker' = [checker EXCEPT !._is_running = TRUE, !.pc = "start_new"]
    /\ CheckerFrame

\* _schedule_next_check called by start(): the Timer is made
StartNew ==
    /\ checker.pc = "start_new"
    /\ Len(checker.timers) < MaxTimers
    /\ checker' = [NewTimer(checker) EXCEPT !.pc = "start_start"]
    /\ CheckerFrame

\* _schedule_next_check called by start(): self._timer.start(), and
\* start() returns or raises
StartStart ==
    /\ checker.pc = "start_start"
    /\ checker' = [StartTimer(checker) EXCEPT !.pc = "idle", !.last = "start"]
    /\ CheckerFrame

\* stop(): the test of _is_running
StopTest ==
    /\ checker.pc = "idle"
    /\ checker.calls < MaxCheckerCalls
    /\ checker' = IF ~checker._is_running
                  THEN [checker EXCEPT !.calls = @ + 1, !.last = "stop"]
                  ELSE [checker EXCEPT !.calls = @ + 1, !.pc = "stop_set"]
    /\ CheckerFrame

\* self._is_running = False
StopSet ==
    /\ checker.pc = "stop_set"
    /\ checker' = [checker EXCEPT !._is_running = FALSE, !.stops = @ + 1,
                                  !.pc = "stop_cancel"]
    /\ CheckerFrame

\* if self._timer: self._timer.cancel()
StopCancel ==
    /\ checker.pc = "stop_cancel"
    /\ checker' = IF Present(checker._timer)
                  THEN [CancelTimer(checker) EXCEPT !.pc = "stop_clear"]
                  ELSE [checker EXCEPT !.pc = "idle", !.last = "stop"]
    /\ CheckerFrame

\* self._timer = None, and stop() returns
StopClear ==
    /\ checker.pc = "stop_clear"
    /\ checker' = [checker EXCEPT !._timer = NoneOpt, !.pc = "idle", !.last = "stop"]
    /\ CheckerFrame

\* the interval of a pending Timer has passed: its thread calls
\* _check_and_reload
TimerFires(i) ==
    /\ checker.timers[i] = "pending"
    /\ checker' = [checker EXCEPT !.timers[i] = "check"]
    /\ CheckerFrame

\* hot_reload_manager.check_for_changes()
CheckForChanges(i) ==
    /\ checker.timers[i] = "check"
    /\ \E changed \in BOOLEAN :
           checker' = [checker EXCEPT
                          !.timers[i] = IF changed THEN "reload" ELSE "finally"]
    /\ CheckerFrame

\* hot_reload_manager.manual_reload()
ManualReload(i) ==
    /\ checker.timers[i] = "reload"
    /\ checker' = [checker EXCEPT !.timers[i] = "finally"]
    /\ CheckerFrame

\* finally: if self._is_running
FinallyTest(i) ==
    /\ checker.timers[i] = "finally"
    /\ checker' = [checker EXCEPT
                      !.timers[i] = IF checker._is_running THEN "schedule" ELSE "done"]
    /\ CheckerFrame

\* _schedule_next_check on the timer thread: the Timer is made
ScheduleNew(i) ==
    /\ checker.timers[i] = "schedule"
    /\ Len(checker.timers) < MaxTimers
    /\ checker' = [NewTimer(checker) EXCEPT !.timers[i] = "start"]
    /\ CheckerFrame

\* _schedule_next_check on the timer thread: self._timer.start(); the
\* thread ends, by an exception if the start raised
ScheduleStart(i) ==
    /\ checker.timers[i] = "start"
    /\ checker' = [StartTimer(checker) EXCEPT
                      !.timers[i] = IF CanStartTimer(checker) THEN "done" ELSE "raised"]
    /\ CheckerFrame

CheckerNext ==
    \/ StartTest
    \/ StartSet
    \/ StartNew
    \/ StartStart
    \/ StopTest
    \/ StopSet
    \/ StopCancel
    \/ StopClear
    \/ \E i \in DOMAIN checker.timers : TimerFires(i)
    \/ \E i \in DOMAIN checker.timers : CheckForChanges(i)
    \/ \E i \in DOMAIN checker.timers : ManualReload(i)
    \/ \E i \in DOMAIN checker.timers : FinallyTest(i)
    \/ \E i \in DOMAIN checker.timers : ScheduleNew(i)
    \/ \E i \in DOMAIN checker.timers : ScheduleStart(i)

SpecChecker == AtRest /\ [][CheckerNext]_vars

\* stop() has returned and start() has not been called since
StopReturned(c) == c.last = "stop" /\ c.pc = "idle"

PendingTimers(c) == {i \in DOMAIN c.timers : c.timers[i] = "pending"}

\* C39: after PeriodicReloadChecker.stop() has returned, the checker
\* starts no further change check: no Timer fires and enters
\* _check_and_reload, also when stop() was called while a check was in
\* progress on the timer thread
C39_NoCheckAfterStop ==
    [][ (StopReturned(checker) /\ StopReturned(checker'))
        => \A i \in DOMAIN checker.timers :
               ~(checker.timers[i] = "pending" /\ checker'.timers[i] = "check") ]_vars

\* a Timer that stop() cancelled never fires
C39_CancelledTimerNeverFires ==
    [][ \A i \in DOMAIN checker.timers :
            checker.timers[i] = "cancelled" => checker'.timers[i] = "cancelled" ]_vars

\* C40: under any interleaving of start(), stop() and timer firings the
\* PeriodicReloadChecker has at most one pending timer at a time
C40_AtMostOnePendingTimer ==
    Cardinality(PendingTimers(checker)) <= 1

\* as long as stop() has not taken effect there is at most one pending
\* timer
C40_OnePendingTimerBeforeStop ==
    checker.stops = 0 => Cardinality(PendingTimers(checker)) <= 1

============================================================================
